---------------------------- MODULE Spec2Model ----------------------------
(***************************************************************************)
(* Model of the relativistic rocket calculator's constrained field solver  *)
(* (InterstellarRelativisticRocketCalculator, src/unnamed/part_001): the   *)
(* field registry, the formula functions it drives, and the handlers       *)
(* handleInputChange, handleUnitChange, calculateValues (with              *)
(* processInput) and clearAll.                                             *)
(*                                                                         *)
(* JavaScript numbers are IEEE doubles.  TLC has 32-bit integers only, so  *)
(* a number is modelled as a decimal floating-point value with a four      *)
(* digit mantissa, s * m * 10^e with m = 0 or 1000 <= m <= 9999, plus NaN  *)
(* and the two infinities.  Every arithmetic operation rounds its result   *)
(* to that format, as a double operation rounds to 53 bits.  The program's *)
(* constants are the source's constants rounded to four digits.            *)
(***************************************************************************)
EXTENDS Integers, Sequences, FiniteSets, TLC

(***************************************************************************)
(* Numbers                                                                 *)
(***************************************************************************)
Pow10(n) == << 1, 10, 100, 1000, 10000, 100000, 1000000, 10000000,
               100000000, 1000000000 >>[n + 1]

\* The number m * 10^e, written with its normalised mantissa: N(6000, -2)
\* is 60 and N(9461, 12) is 9.461e15.
\* Records are written with their fields in the order TLC keeps them in, so
\* that a value shared by two workers is never rearranged in place.
N(m, e) == [m |-> m, e |-> e, k |-> "fin", s |-> 1]

NaN == [m |-> 0, e |-> 0, k |-> "nan", s |-> 1]

Zero == N(0, 0)

One == N(1000, -3)

Two == N(2000, -3)

Inf(sign) == [m |-> 0, e |-> 0, k |-> "inf", s |-> sign]

\* The empty string "" held by a field's value when the field has no number.
EmptyValue == [m |-> 0, e |-> 0, k |-> "str", s |-> 1]

\* Number of decimal digits of a positive integer below 2^31.
NumDigits(M) ==
  IF M < 10 THEN 1 ELSE IF M < 100 THEN 2 ELSE IF M < 1000 THEN 3
  ELSE IF M < 10000 THEN 4 ELSE IF M < 100000 THEN 5
  ELSE IF M < 1000000 THEN 6 ELSE IF M < 10000000 THEN 7
  ELSE IF M < 100000000 THEN 8 ELSE IF M < 1000000000 THEN 9 ELSE 10

\* sign * M * 10^ex (M >= 0) rounded, half away from zero, to a four digit
\* mantissa.
Fin(sign, M, ex) ==
  IF M = 0 THEN Zero
  ELSE LET d == NumDigits(M) IN
       IF d <= 4
       THEN [m |-> M * Pow10(4 - d), e |-> ex - (4 - d), k |-> "fin", s |-> sign]
       ELSE LET p10 == Pow10(d - 4)
                r   == (M \div p10) + (IF (M % p10) * 2 >= p10 THEN 1 ELSE 0)
            IN IF r = 10000
               THEN [m |-> 1000, e |-> ex + d - 3, k |-> "fin", s |-> sign]
               ELSE [m |-> r, e |-> ex + d - 4, k |-> "fin", s |-> sign]

IsNaN(a) == a.k = "nan"

IsFinite(a) == a.k = "fin"

IsZero(a) == a.k = "fin" /\ a.m = 0

\* JavaScript truthiness of a number (0 and NaN are falsy).
Truthy(a) == ~IsNaN(a) /\ ~IsZero(a)

Neg(a) == IF a.k = "nan" \/ IsZero(a) THEN a ELSE [a EXCEPT !.s = -a.s]

\* a < b as JavaScript evaluates it: false when either side is NaN.
Lt(a, b) ==
  IF IsNaN(a) \/ IsNaN(b) THEN FALSE
  ELSE IF a.k = "inf" THEN a.s = -1 /\ ~(b.k = "inf" /\ b.s = -1)
  ELSE IF b.k = "inf" THEN b.s = 1
  ELSE IF IsZero(a) THEN b.m # 0 /\ b.s = 1
  ELSE IF IsZero(b) THEN a.s = -1
  ELSE IF a.s # b.s THEN a.s = -1
  ELSE IF a.s = 1
       THEN a.e < b.e \/ (a.e = b.e /\ a.m < b.m)
       ELSE a.e > b.e \/ (a.e = b.e /\ a.m > b.m)

Gt(a, b) == Lt(b, a)

\* a + b
Add(a, b) ==
  IF IsNaN(a) \/ IsNaN(b) THEN NaN
  ELSE IF a.k = "inf"
       THEN IF b.k = "inf" /\ b.s # a.s THEN NaN ELSE a
  ELSE IF b.k = "inf" THEN b
  ELSE IF IsZero(a) THEN b
  ELSE IF IsZero(b) THEN a
  ELSE IF a.e - b.e > 5 THEN a
  ELSE IF b.e - a.e > 5 THEN b
  ELSE LET lo == IF a.e < b.e THEN a.e ELSE b.e
           t  == a.s * a.m * Pow10(a.e - lo) + b.s * b.m * Pow10(b.e - lo)
       IN Fin(IF t < 0 THEN -1 ELSE 1, IF t < 0 THEN -t ELSE t, lo)

\* a - b
Sub(a, b) == Add(a, Neg(b))

\* a * b
Mul(a, b) ==
  IF IsNaN(a) \/ IsNaN(b) THEN NaN
  ELSE IF a.k = "inf" \/ b.k = "inf"
       THEN IF IsZero(a) \/ IsZero(b) THEN NaN ELSE Inf(a.s * b.s)
  ELSE IF IsZero(a) \/ IsZero(b) THEN Zero
  ELSE Fin(a.s * b.s, a.m * b.m, a.e + b.e)

\* a / b
Div(a, b) ==
  IF IsNaN(a) \/ IsNaN(b) THEN NaN
  ELSE IF a.k = "inf"
       THEN IF b.k = "inf" THEN NaN ELSE Inf(a.s * b.s)
  ELSE IF b.k = "inf" THEN Zero
  ELSE IF IsZero(b)
       THEN IF IsZero(a) THEN NaN ELSE Inf(a.s * b.s)
  ELSE IF IsZero(a) THEN Zero
  ELSE Fin(a.s * b.s, (a.m * 100000) \div b.m, a.e - b.e - 5)

\* Largest r in lo..hi with r * r <= n.
RECURSIVE ISqrtIn(_, _, _)
ISqrtIn(n, lo, hi) ==
  IF lo >= hi THEN lo
  ELSE CHOOSE r \in
         {IF mid * mid <= n THEN ISqrtIn(n, mid, hi) ELSE ISqrtIn(n, lo, mid - 1) :
            mid \in {(lo + hi + 1) \div 2}} : TRUE

\* Math.sqrt
Sqrt(a) ==
  IF IsNaN(a) THEN NaN
  ELSE IF IsZero(a) THEN Zero
  ELSE IF a.s = -1 THEN NaN
  ELSE IF a.k = "inf" THEN a
  ELSE IF a.e % 2 = 0
       THEN Fin(1, ISqrtIn(a.m * 10000, 0, 40000), (a.e - 4) \div 2)
       ELSE Fin(1, ISqrtIn(a.m * 100000, 0, 40000), (a.e - 5) \div 2)

\* Fractional bits of log2(y / 10000) for 10000 <= y < 20000, by repeated
\* squaring; the result is scaled by 2^bits.
RECURSIVE Log2Frac(_, _, _)
Log2Frac(y, bits, acc) ==
  IF bits = 0 THEN acc
  ELSE CHOOSE r \in
         {IF sq >= 20000
          THEN Log2Frac(sq \div 2, bits - 1, 2 * acc + 1)
          ELSE Log2Frac(sq, bits - 1, 2 * acc) :
            sq \in {(y * y) \div 10000}} : TRUE

\* ln(m / 1000) * 10^4 for 1000 <= m <= 9999.
LnMant(m) ==
  LET ip == IF m >= 8000 THEN 3 ELSE IF m >= 4000 THEN 2
            ELSE IF m >= 2000 THEN 1 ELSE 0
      y  == (m * 10) \div (IF ip = 3 THEN 8 ELSE IF ip = 2 THEN 4
                           ELSE IF ip = 1 THEN 2 ELSE 1)
  IN ((ip * 4096 + Log2Frac(y, 12, 0)) * 6931) \div 4096

\* Math.log
Ln(a) ==
  IF IsNaN(a) THEN NaN
  ELSE IF IsZero(a) THEN Inf(-1)
  ELSE IF a.s = -1 THEN NaN
  ELSE IF a.k = "inf" THEN a
  ELSE LET t == LnMant(a.m) + (a.e + 3) * 23026
       IN Fin(IF t < 0 THEN -1 ELSE 1, IF t < 0 THEN -t ELSE t, -4)

(***************************************************************************)
(* Arithmetic expressions.  A formula function is written as the           *)
(* expression it computes, built from numbers with the constructors        *)
(* below; Eval computes the expression's value, one rounded operation per  *)
(* node, operands first.                                                   *)
(***************************************************************************)
Plus(x, y) == [k |-> "+", a |-> x, b |-> y]

Minus(x, y) == [k |-> "-", a |-> x, b |-> y]

Times(x, y) == [k |-> "*", a |-> x, b |-> y]

Over(x, y) == [k |-> "/", a |-> x, b |-> y]

SqrtOf(x) == [k |-> "sqrt", a |-> x]

LogOf(x) == [k |-> "log", a |-> x]

Log10Of(x) == [k |-> "log10", a |-> x]

AsinhOf(x) == [k |-> "asinh", a |-> x]

TanhOf(x) == [k |-> "tanh", a |-> x]

\* x > y ? t : u
IfGreater(x, y, t, u) == [k |-> "if>", d |-> u, a |-> x, b |-> y, c |-> t]

\* x && y ? t : u
IfBoth(x, y, t, u) == [k |-> "if&&", d |-> u, a |-> x, b |-> y, c |-> t]

\* The value of a node from the values of its operands.
Apply(kind, x, y) ==
  CASE kind = "+" -> Add(x, y)
    [] kind = "-" -> Sub(x, y)
    [] kind = "*" -> Mul(x, y)
    [] kind = "/" -> Div(x, y)
    [] kind = "sqrt" -> Sqrt(x)
    [] kind = "log" -> Ln(x)
    [] kind = "if>" -> IF Gt(x, y) THEN One ELSE Zero
    [] kind = "if&&" -> IF Truthy(x) /\ Truthy(y) THEN One ELSE Zero

\* ln 10
LN10 == N(2303, -3)

\* 2^(-1/2), 2^(-1/4), ..., 2^(-1/4096), scaled by 10^5.
HalfPowers ==
  << 70711, 84090, 91700, 95760, 97857, 98923, 99460, 99730, 99865, 99932,
     99966, 99983 >>

Pow2(n) ==
  << 1, 2, 4, 8, 16, 32, 64, 128, 256, 512, 1024, 2048, 4096, 8192, 16384,
     32768 >>[n + 1]

\* 2^(-f / 4096) * 10^4 for 0 <= f < 4096: the product of the HalfPowers at
\* the bits of f, from bit i on, times acc.
RECURSIVE Exp2Frac(_, _, _)
Exp2Frac(f, i, acc) ==
  IF i > 12 THEN acc
  ELSE CHOOSE r \in
         {Exp2Frac(f, i + 1, next) :
            next \in {IF (f \div Pow2(12 - i)) % 2 = 1
                      THEN (acc * HalfPowers[i]) \div 100000 ELSE acc}} : TRUE

\* 2^(-w) for w >= 0, as the quotient of a mantissa and a power of 2.  From
\* w = 16 on it is below half a unit in the last place of 1, and is 0 here.
Exp2Neg(w) ==
  IF w.k = "nan" THEN NaN
  ELSE IF w.k = "inf" THEN Zero
  ELSE IF IsZero(w) \/ w.e < -9 THEN One
  ELSE IF w.e >= -1 THEN Zero
  ELSE LET W == (w.m * 4096) \div Pow10(-w.e)
           P == Exp2Frac(W % 4096, 1, 10000)
       IN IF W >= 16 * 4096 THEN Zero
          ELSE Over(IF P = 10000 THEN One ELSE N(P, -4),
                    [m |-> Pow2(W \div 4096), e |-> 0, k |-> "fin", s |-> 1])

\* The library functions as expressions over the basic operations:
\* Math.log10(x) = ln x / ln 10; Math.asinh(x) = ln(x + sqrt(x^2 + 1)), odd
\* in x; Math.tanh(x) = (1 - q) / (1 + q) with q = e^(-2x) = 2^(-2x log2 e),
\* odd in x.
Expanded(kind, x) ==
  LET absx == IF x.k = "nan" THEN x ELSE [x EXCEPT !.s = 1]
      odd(t) == IF x.k # "nan" /\ x.s = -1 THEN Minus(Zero, t) ELSE t
      q == [k |-> "exp2neg", a |-> Times(Times(Two, absx), N(1443, -3))]
  IN CASE kind = "log10" -> Over(LogOf(x), LN10)
       [] kind = "asinh" ->
            odd(LogOf(Plus(absx, SqrtOf(Plus(Times(absx, absx), One)))))
       [] kind = "tanh" -> odd(Over(Minus(One, q), Plus(One, q)))
       [] kind = "exp2neg" -> Exp2Neg(x)

RECURSIVE Eval(_)
Eval(t) ==
  IF t.k \in {"fin", "nan", "inf"} THEN t
  ELSE IF t.k \in {"log10", "asinh", "tanh", "exp2neg"}
  THEN CHOOSE r \in {Eval(Expanded(t.k, x)) : x \in {Eval(t.a)}} : TRUE
  ELSE IF t.k \in {"sqrt", "log"}
  THEN CHOOSE r \in {Apply(t.k, x, x) : x \in {Eval(t.a)}} : TRUE
  ELSE IF t.k \in {"if>", "if&&"}
  THEN IF One \in {Apply(t.k, x, y) : x \in {Eval(t.a)}, y \in {Eval(t.b)}}
       THEN Eval(t.c) ELSE Eval(t.d)
  ELSE CHOOSE r \in {Apply(t.k, x, y) : x \in {Eval(t.a)}, y \in {Eval(t.b)}} : TRUE

(***************************************************************************)
(* Strings shown in the input boxes (displayValue).  A string is either    *)
(* the decimal numeral of a finite number, or some other text ("", "abc",  *)
(* "NaN", "Infinity").                                                     *)
(***************************************************************************)
Str(t) == [kind |-> "text", txt |-> t, num |-> Zero]

Numeral(x) == [kind |-> "numeral", txt |-> "", num |-> x]

\* JavaScript truthiness of a string: only "" is falsy.
StrTruthy(str) == ~(str.kind = "text" /\ str.txt = "")

\* parseFloat
ParseFloat(str) ==
  IF str.kind = "numeral" THEN str.num
  ELSE IF str.txt = "Infinity" THEN Inf(1)
  ELSE IF str.txt = "-Infinity" THEN Inf(-1)
  ELSE NaN

\* Number.prototype.toString
NumberToString(x) ==
  IF IsNaN(x) THEN Str("NaN")
  ELSE IF x.k = "inf" THEN Str(IF x.s = 1 THEN "Infinity" ELSE "-Infinity")
  ELSE Numeral(x)

\* x.toFixed(6).replace(/\.?0+$/, ""): x rounded to six decimals.
ToFixed6Stripped(x) ==
  IF ~IsFinite(x) THEN NumberToString(x)
  ELSE IF IsZero(x) \/ x.e >= -6 THEN Numeral(x)
  ELSE IF -6 - x.e >= 5 THEN Numeral(Zero)
  ELSE Numeral(Fin(x.s,
                   (x.m \div Pow10(-6 - x.e)) +
                     (IF (x.m % Pow10(-6 - x.e)) * 2 >= Pow10(-6 - x.e)
                      THEN 1 ELSE 0),
                   -6))

(***************************************************************************)
(* Constants                                                               *)
(***************************************************************************)
\* 299792458
SPEED_OF_LIGHT == N(2998, 5)

\* 89875517873681760
SPEED_OF_LIGHT_SQUARED == N(8988, 13)

\* 149598000000
ASTRONOMICAL_UNIT == N(1496, 8)

\* 17987547480
LIGHT_MINUTE == N(1799, 7)

\* 9460730472580800
LIGHT_YEAR == N(9461, 12)

\* 30856780000000000
PARSEC == N(3086, 13)

(***************************************************************************)
(* Formula functions.  p is the argument map: a function from the names    *)
(* of the parameters that were supplied to their values.  Reading a name   *)
(* that is absent yields undefined, which arithmetic turns into NaN and    *)
(* which is falsy.  Each function is the expression the source computes.   *)
(***************************************************************************)
Param(p, name) == IF name \in DOMAIN p THEN p[name] ELSE NaN

\* { ...p, [name]: v }
With(p, name, v) ==
  [n \in (DOMAIN p) \cup {name} |-> IF n = name THEN v ELSE p[n]]

acosh(arg) == LogOf(Plus(arg, SqrtOf(Minus(Times(arg, arg), One))))

calcVelocity(p) ==
  LET T   == Param(p, "observer_time")
      a   == Param(p, "acceleration")
      el0 == Param(p, "observer_time_elapsed")
      observedTimeElapsed == IfGreater(el0, Over(T, Two), Minus(T, el0), el0)
      observedTimeProportion == Over(observedTimeElapsed, T)
      timeProportionSq ==
        Over(One, Times(observedTimeProportion, observedTimeProportion))
      k == Over(SPEED_OF_LIGHT_SQUARED, a)
      denominator == Over(Times(Times(a, T), T), timeProportionSq)
      second_sqrt_term == Over(k, denominator)
      sqrt_term == Plus(One, second_sqrt_term)
  IN Over(SPEED_OF_LIGHT, SqrtOf(sqrt_term))

calcMaxVelocity(p) ==
  calcVelocity(With(p, "observer_time_elapsed",
                    Over(Param(p, "observer_time"), Two)))

calcDist(observerTime, velocity) ==
  LET numerator == Times(Times(SPEED_OF_LIGHT, velocity), observerTime)
      lorentz   == SqrtOf(Minus(SPEED_OF_LIGHT_SQUARED, Times(velocity, velocity)))
  IN Over(numerator, Plus(SPEED_OF_LIGHT, lorentz))

calcDistance(p) ==
  LET T  == Param(p, "observer_time")
      el == Param(p, "observer_time_elapsed")
      p2 == With(p, "observer_time_elapsed", Minus(T, el))
  IN IfGreater(el, Over(T, Two),
       Minus(calcDist(T, calcMaxVelocity(p)),
             calcDist(Param(p2, "observer_time_elapsed"), calcVelocity(p2))),
       calcDist(el, calcVelocity(p)))

calcTotalDistance(p) ==
  calcDistance(With(p, "observer_time_elapsed", Param(p, "observer_time")))

\* The value calcAcceleration returns; it also sets the error message (see
\* AccelerationWarning and VisitField).
calcAcceleration(p) ==
  LET d == Param(p, "distance")
      T == Param(p, "observer_time")
      v == Param(p, "max_velocity")
      distance == Over(d, Two)
      time     == Over(T, Two)
  IN IfBoth(d, T,
       Over(Times(Two, distance), Times(time, time)),
       IfBoth(d, v,
         Over(Times(v, v), d),
         Over(Times(Two, v), T)))

calcObserverTime(p) ==
  LET a == Param(p, "acceleration")
      k == Over(SPEED_OF_LIGHT_SQUARED, a)
      k_over_a == Over(k, a)
      op1 == Plus(Over(Param(p, "distance"), Times(Two, k)), One)
      sqrt_term_operand == Times(op1, op1)
      sqrt_term == Times(k_over_a, Minus(sqrt_term_operand, One))
  IN Times(Two, SqrtOf(sqrt_term))

calcTotalTravelerTime(p) ==
  LET a == Param(p, "acceleration")
      k == Over(SPEED_OF_LIGHT_SQUARED, a)
      acosh_result == acosh(Plus(Over(Param(p, "distance"), Times(Two, k)), One))
  IN Times(Over(Times(Two, SPEED_OF_LIGHT), a), acosh_result)

calcFuelConversionRate(p) ==
  LET vel_to_c == Over(Param(p, "max_velocity"), SPEED_OF_LIGHT)
      per_kg_100percent == Over(Times(Two, vel_to_c), Minus(One, vel_to_c))
      perfect_efficient == Times(per_kg_100percent, Param(p, "spacecraft_mass"))
  IN Over(perfect_efficient, Param(p, "fuel_mass"))

\* calcFuelMass without the 1 - v/c denominator.
calcFuelMass_NoDenominator(p) ==
  LET vel_to_c == Over(Param(p, "max_velocity"), SPEED_OF_LIGHT)
      per_kg_100percent == Times(Two, vel_to_c)
  IN Over(Times(per_kg_100percent, Param(p, "spacecraft_mass")),
          Param(p, "fuel_conversion_rate"))

calcFuelMass(p) ==
  LET vel_to_c == Over(Param(p, "max_velocity"), SPEED_OF_LIGHT)
      per_kg_100percent == Over(Times(Two, vel_to_c), Minus(One, vel_to_c))
  IN Over(Times(per_kg_100percent, Param(p, "spacecraft_mass")),
          Param(p, "fuel_conversion_rate"))

calcMinObserverLength(p) ==
  LET v == Param(p, "max_velocity")
      velocity_sq == Times(v, v)
  IN Times(Param(p, "traveler_length"),
           SqrtOf(Minus(One, Over(velocity_sq, SPEED_OF_LIGHT_SQUARED))))

calcTravelerLength(p) ==
  LET v == Param(p, "max_velocity")
      velocity_sq == Times(v, v)
  IN Over(Param(p, "observer_length"),
          SqrtOf(Minus(One, Over(velocity_sq, SPEED_OF_LIGHT_SQUARED))))

(***************************************************************************)
(* The field registry (fieldDefinitions)                                   *)
(***************************************************************************)
\* The registry's keys in insertion order, the order for...in visits them.
FieldOrder ==
  << "distance", "acceleration", "max_velocity", "observer_time",
     "traveler_time", "spacecraft_mass", "fuel_mass", "fuel_conversion_rate",
     "traveler_length", "observer_length" >>

FieldNames == {FieldOrder[i] : i \in DOMAIN FieldOrder}

TimeUnits ==
  [seconds |-> One, minutes |-> N(6000, -2), hours |-> N(3600, 0),
   days |-> N(8640, 1), months |-> N(2630, 3),
   years |-> N(3156, 4)]

LengthUnits ==
  [meters |-> One, millimeters |-> Div(One, N(1000, -1)),
   centimeters |-> Div(One, N(1000, -2)), kilometers |-> N(1000, 0)]

\* units: unit name -> multiplier to the base unit
Units ==
  [distance |->
     ("meters" :> One) @@ ("kilometers" :> N(1000, 0)) @@
     ("light-seconds" :> SPEED_OF_LIGHT) @@ ("light-minutes" :> LIGHT_MINUTE) @@
     ("astronomical unit" :> ASTRONOMICAL_UNIT) @@
     ("light-years" :> LIGHT_YEAR) @@ ("parsec" :> PARSEC),
   acceleration |-> ("m/s^2" :> One) @@ ("g" :> N(9800, -3)),
   max_velocity |->
     ("kilometers per hour" :> N(2778, -4)) @@
     ("meters per second" :> One) @@
     ("kilometers per second" :> N(1000, 0)) @@
     ("speed of light (c)" :> SPEED_OF_LIGHT),
   observer_time |-> TimeUnits,
   traveler_time |-> TimeUnits,
   spacecraft_mass |->
     [grams |-> N(1000, -6), kilograms |-> One, tons |-> N(1000, 0)],
   fuel_mass |-> [tons |-> N(1000, 0), kg |-> One],
   fuel_conversion_rate |-> ("kg x m x m" :> One),
   traveler_length |-> LengthUnits,
   observer_length |-> LengthUnits]

\* primary
Primary ==
  {"distance", "acceleration", "spacecraft_mass", "fuel_conversion_rate",
   "traveler_length"}

\* parameters, for the fields that have a calc function
Parameters ==
  [distance |-> << "observer_time", "acceleration" >>,
   acceleration |-> << "distance", "observer_time", "max_velocity" >>,
   max_velocity |-> << "acceleration", "observer_time" >>,
   observer_time |-> << "acceleration", "distance" >>,
   traveler_time |-> << "acceleration", "distance" >>,
   fuel_mass |-> << "max_velocity", "spacecraft_mass", "fuel_conversion_rate" >>,
   fuel_conversion_rate |-> << "max_velocity", "spacecraft_mass", "fuel_mass" >>,
   traveler_length |-> << "observer_length", "max_velocity" >>,
   observer_length |-> << "traveler_length", "max_velocity" >>]

\* The fields whose calc is a function (spacecraft_mass has calc: null).
HasCalc(f) == f \in DOMAIN Parameters

\* The expression the field's calc computes from the argument map p.
CalcExpression(f, p) ==
  CASE f = "distance" -> calcTotalDistance(p)
    [] f = "acceleration" -> calcAcceleration(p)
    [] f = "max_velocity" -> calcMaxVelocity(p)
    [] f = "observer_time" -> calcObserverTime(p)
    [] f = "traveler_time" -> calcTotalTravelerTime(p)
    [] f = "fuel_mass" -> calcFuelMass(p)
    [] f = "fuel_conversion_rate" -> calcFuelConversionRate(p)
    [] f = "traveler_length" -> calcTravelerLength(p)
    [] f = "observer_length" -> calcMinObserverLength(p)

\* calc, applied to the argument map p: the value of its expression.
Calc(f, p) ==
  CHOOSE v \in {Eval(e) : e \in {CalcExpression(f, q) : q \in {p}}} : TRUE

\* max_missing (declared by acceleration only)
MaxMissing == [acceleration |-> 1]

\* min_val, min_error
MinVal ==
  [distance |-> N(1000, -1), acceleration |-> N(1000, -20),
   max_velocity |-> N(1000, -18)]

MinError ==
  [distance |->
     "This calculator is quite useless for such small distances. Try travel a bit further.",
   acceleration |-> "Distance too small.",
   max_velocity |->
     "Your velocity is too small. At this rate you won't get out your front door."]

\* max_val, max_error
MaxVal ==
  [acceleration |-> Sub(SPEED_OF_LIGHT, N(1000, -6)),
   max_velocity |-> Sub(SPEED_OF_LIGHT, N(1000, -6))]

MaxError ==
  [acceleration |->
     "Is your spaceship on steroids? You can't accelerate so quickly.",
   max_velocity |->
     "You have been watching too much Star Trek. Velocity must be less than the speed of light."]

\* def_val
DefVal ==
  [distance |-> Numeral(N(1120, -2)), acceleration |-> Numeral(N(9800, -3)),
   spacecraft_mass |-> Numeral(N(2500, 1)),
   fuel_conversion_rate |-> Numeral(N(8000, -6)),
   traveler_length |-> Numeral(N(1000, -1))]

\* The message calcAcceleration puts in the error box whenever it is called.
AccelerationWarning ==
  "The acceleration is calculated using Newtonian equations and is inaccurate when velocity approaches speed of light. It is better to input the acceleration yourself."

\* defaultUnits of initializeFields
DefaultUnits ==
  [distance |-> "light-years", acceleration |-> "m/s^2",
   max_velocity |-> "speed of light (c)", observer_time |-> "years",
   traveler_time |-> "years", spacecraft_mass |-> "tons",
   fuel_mass |-> "tons", fuel_conversion_rate |-> "kg x m x m",
   traveler_length |-> "meters", observer_length |-> "meters"]

\* The field state initializeFields builds.
InitialFields ==
  [f \in FieldNames |->
     [value |-> IF f \in DOMAIN DefVal
                THEN Mul(ParseFloat(DefVal[f]), Units[f][DefaultUnits[f]])
                ELSE EmptyValue,
      displayValue |-> IF f \in DOMAIN DefVal THEN DefVal[f] ELSE Str(""),
      current_unit |-> DefaultUnits[f],
      changed |-> FALSE,
      set |-> FALSE]]

(***************************************************************************)
(* The interstellar delta-v calculator (InterstellarDeltavCalculator,      *)
(* src/unnamed/part_000).  Distances are in km, velocities in km/s.        *)
(***************************************************************************)
\* CONSTANTS.LY_TO_KM, 9.461e12
LY_TO_KM == N(9461, 9)

\* CONSTANTS.C, 299792.458 km/s
C == N(2998, 2)

\* CONSTANTS.G, 9.81 m/s^2
G == N(9810, -3)

\* HAIL_MARY.ACCELERATION_G, 1.5
ACCELERATION_G == N(1500, -3)

\* HAIL_MARY.DELTA_V, 6 * 299792.458 = 1798754.748
DELTA_V == N(1799, 3)

\* 365.25 * 24 * 3600
YearSeconds == Times(Times(N(3653, -1), N(2400, -2)), N(3600, 0))

STAR_ORDER ==
  << "Proxima Centauri", "Alpha Centauri", "Barnard's Star", "Wolf 359",
     "Lalande 21185", "Sirius", "Luyten 726-8", "Ross 154", "Ross 248",
     "Epsilon Eridani", "Lacaille 9352", "Ross 128", "EZ Aquarii", "Procyon",
     "Tau Ceti" >>

\* STARS[star].distance, in light-years, in the order of STAR_ORDER.
StarDistances ==
  << N(4246, -3), N(4370, -3), N(5960, -3), N(7860, -3), N(8290, -3),
     N(8580, -3), N(8730, -3), N(9690, -3), N(1032, -2), N(1052, -2),
     N(1074, -2), N(1101, -2), N(1127, -2), N(1146, -2), N(1191, -2) >>

STARS ==
  [star \in {STAR_ORDER[i] : i \in DOMAIN STAR_ORDER} |->
     [distance |->
        StarDistances[CHOOSE i \in DOMAIN STAR_ORDER : STAR_ORDER[i] = star]]]

\* A function body is written as the sequence of its const declarations,
\* << name, expression >>, over its arguments and earlier names; Run
\* evaluates them in order, each once, and yields the values by name.
Var(name) == [k |-> "var", name |-> name]

\* const name = f(arguments of the caller), where f's body is prog.
Call(prog) == [k |-> "call", prog |-> prog]

\* The expression t with the names it mentions replaced by their values.
RECURSIVE Subst(_, _)
Subst(t, env) ==
  IF t.k = "var" THEN env[t.name]
  ELSE IF t.k \in {"fin", "nan", "inf"} THEN t
  ELSE IF t.k \in {"sqrt", "log", "log10", "asinh", "tanh"}
  THEN [k |-> t.k, a |-> Subst(t.a, env)]
  ELSE IF t.k \in {"if>", "if&&"}
  THEN [k |-> t.k, d |-> Subst(t.d, env), a |-> Subst(t.a, env),
        b |-> Subst(t.b, env), c |-> Subst(t.c, env)]
  ELSE [k |-> t.k, a |-> Subst(t.a, env), b |-> Subst(t.b, env)]

Bound(env, name, v) ==
  [n \in (DOMAIN env) \cup {name} |-> IF n = name THEN v ELSE env[n]]

RECURSIVE Run(_, _, _)
Run(prog, i, env) ==
  IF i > Len(prog) THEN env
  ELSE CHOOSE r \in
         {Run(prog, i + 1, Bound(env, prog[i][1], v)) :
            v \in {IF prog[i][2].k = "call"
                   THEN Run(prog[i][2].prog, 1, env)["return"]
                   ELSE Eval(Subst(prog[i][2], env))}} : TRUE

getMaxVelocity(dv) == Over(dv, Two)

\* baseAcceleration * scaleFactor * (1 + 0.1 * Math.log10(dv / 1000))
ScaledAcceleration(dv) ==
  Times(Times(N(1400, -6), Over(dv, N(7200, 1))),
        Plus(One, Times(N(1000, -4), Log10Of(Over(dv, N(1000, 0))))))

\* 0.5 * acceleration * Math.pow(accelerationTime, 2)
AccelerationDistance(acceleration, accelerationTime) ==
  Times(Times(N(5000, -4), acceleration),
        Times(accelerationTime, accelerationTime))

\* calculateTravelTime(distanceKm, dv)
calculateTravelTime ==
  << << "maxVelocity", getMaxVelocity(Var("dv")) >>,
     << "acceleration", ScaledAcceleration(Var("dv")) >>,
     << "accelerationTime", Over(Var("maxVelocity"), Var("acceleration")) >>,
     << "accelerationDistance",
        AccelerationDistance(Var("acceleration"), Var("accelerationTime")) >>,
     << "timeHalf",
        SqrtOf(Over(Var("distanceKm"), Times(Two, Var("acceleration")))) >>,
     << "coastingDistance",
        Minus(Var("distanceKm"), Times(Two, Var("accelerationDistance"))) >>,
     << "coastingTime", Over(Var("coastingDistance"), Var("maxVelocity")) >>,
     << "return",
        IfGreater(Var("accelerationDistance"), Over(Var("distanceKm"), Two),
                  Times(Two, Var("timeHalf")),
                  Plus(Var("coastingTime"), Times(Two, Var("accelerationTime")))) >> >>

\* calculateRelativisticTravelTime, the dv > c branch: constant proper
\* acceleration of 1.5 g.
HighDeltaV ==
  << << "acceleration", Over(Times(ACCELERATION_G, G), N(1000, 0)) >>,
     << "D", Var("distanceKm") >>,
     << "onePlus",
        Plus(One, Over(Times(Var("acceleration"), Var("D")),
                       Times(Times(Two, C), C))) >>,
     << "coordinateTimeHalf",
        Times(Over(C, Var("acceleration")),
              SqrtOf(Minus(Times(Var("onePlus"), Var("onePlus")), One))) >>,
     << "properTimeHalf",
        Times(Over(C, Var("acceleration")),
              AsinhOf(Over(Times(Var("acceleration"), Var("coordinateTimeHalf")),
                           C))) >>,
     << "beta",
        TanhOf(Over(Times(Var("acceleration"), Var("properTimeHalf")), C)) >>,
     << "effectiveMaxVelocity", Times(Var("beta"), C) >>,
     << "gamma",
        Over(One, SqrtOf(Minus(One, Times(Var("beta"), Var("beta"))))) >>,
     << "totalShipTime", Times(Two, Var("properTimeHalf")) >>,
     << "totalEarthTime", Times(Two, Var("coordinateTimeHalf")) >>,
     << "shipYears", Over(Var("totalShipTime"), YearSeconds) >>,
     << "earthYears", Over(Var("totalEarthTime"), YearSeconds) >>,
     << "accelerationYears", Over(Var("properTimeHalf"), YearSeconds) >>,
     << "coastYears", Zero >> >>

\* The dv <= c branch up to its test 2 * accelerationDistance > distanceKm
\* (whose left side is named twiceAccelerationDistance here).
LowDeltaV ==
  << << "effectiveMaxVelocity",
        IfGreater(Over(Var("dv"), Two), Times(N(9990, -4), C),
                  Times(N(9990, -4), C), Over(Var("dv"), Two)) >>,
     << "beta", Over(Var("effectiveMaxVelocity"), C) >>,
     << "gamma",
        Over(One, SqrtOf(Minus(One, Times(Var("beta"), Var("beta"))))) >>,
     << "acceleration", ScaledAcceleration(Var("dv")) >>,
     << "accelerationTime",
        Over(Var("effectiveMaxVelocity"), Var("acceleration")) >>,
     << "accelerationDistance",
        AccelerationDistance(Var("acceleration"), Var("accelerationTime")) >>,
     << "twiceAccelerationDistance", Times(Two, Var("accelerationDistance")) >> >>

\* The body of that test: no coast phase.
NoCoast ==
  << << "classicalTime", Call(calculateTravelTime) >>,
     << "shipYears",
        Over(Var("classicalTime"),
             Times(Times(Times(Var("gamma"), N(3653, -1)), N(2400, -2)),
                   N(3600, 0))) >>,
     << "earthYears", Over(Var("classicalTime"), YearSeconds) >>,
     << "accelerationYears", Over(Var("shipYears"), Two) >>,
     << "coastYears", Zero >> >>

\* The rest of the branch: accelerate, coast, decelerate.
Coast ==
  << << "coastDistance",
        Minus(Var("distanceKm"), Times(Two, Var("accelerationDistance"))) >>,
     << "accelTime", Times(Two, Var("accelerationTime")) >>,
     << "coastTimeClassical",
        Over(Var("coastDistance"), Var("effectiveMaxVelocity")) >>,
     << "coastTimeShip", Over(Var("coastTimeClassical"), Var("gamma")) >>,
     << "totalShipSeconds", Plus(Var("accelTime"), Var("coastTimeShip")) >>,
     << "shipYears", Over(Var("totalShipSeconds"), YearSeconds) >>,
     << "totalEarthSeconds", Plus(Var("accelTime"), Var("coastTimeClassical")) >>,
     << "earthYears", Over(Var("totalEarthSeconds"), YearSeconds) >>,
     << "accelerationYears", Over(Var("accelerationTime"), YearSeconds) >>,
     << "coastYears", Over(Var("coastTimeShip"), YearSeconds) >> >>

\* The object calculateRelativisticTravelTime returns.
Returned(env) ==
  [shipYears |-> env["shipYears"], earthYears |-> env["earthYears"],
   beta |-> env["beta"], gamma |-> env["gamma"],
   accelerationYears |-> env["accelerationYears"],
   coastYears |-> env["coastYears"]]

\* calculateRelativisticTravelTime without the test for the no-coast case.
calculateRelativisticTravelTime_AlwaysCoast(distanceKm, dv) ==
  CHOOSE r \in
    {Returned(Run(IF Gt(dv, C) THEN << >> ELSE Coast, 1, env)) :
       env \in {Run(IF Gt(dv, C) THEN HighDeltaV ELSE LowDeltaV, 1,
                    [dv |-> dv, distanceKm |-> distanceKm])}} : TRUE

calculateRelativisticTravelTime(distanceKm, dv) ==
  CHOOSE r \in
    {Returned(Run(IF Gt(dv, C) THEN << >>
                  ELSE IF Gt(env["twiceAccelerationDistance"], distanceKm)
                  THEN NoCoast ELSE Coast, 1, env)) :
       env \in {Run(IF Gt(dv, C) THEN HighDeltaV ELSE LowDeltaV, 1,
                    [dv |-> dv, distanceKm |-> distanceKm])}} : TRUE

\* calculateStarMetrics up to the call of calculateRelativisticTravelTime.
StarMetrics ==
  << << "distanceKm", Times(Var("distanceLy"), LY_TO_KM) >>,
     << "maxVelocity", getMaxVelocity(Var("dv")) >>,
     << "lightSpeedPercentage",
        Times(Over(Var("maxVelocity"), C), N(1000, -1)) >> >>

calculateStarMetrics(star, dv) ==
  CHOOSE r \in
    {[star |-> star,
      shipYears |-> relativistic.shipYears,
      earthYears |-> relativistic.earthYears,
      gamma |-> relativistic.gamma,
      accelerationYears |-> relativistic.accelerationYears,
      coastYears |-> relativistic.coastYears,
      distanceKm |-> env["distanceKm"],
      distanceLy |-> env["distanceLy"],
      lightSpeedPercentage |-> env["lightSpeedPercentage"],
      maxVelocity |-> env["maxVelocity"]] :
       env \in {Run(StarMetrics, 1,
                    [dv |-> dv, distanceLy |-> STARS[star].distance])},
       relativistic \in
         {calculateRelativisticTravelTime(
            Eval(Times(STARS[star].distance, LY_TO_KM)), dv)}} : TRUE

\* sorted with entry e put in by (a, b) => a.shipYears - b.shipYears; the
\* sort is stable, and a NaN difference counts as 0.
RECURSIVE Inserted(_, _)
Inserted(sorted, e) ==
  IF sorted = << >> THEN << e >>
  ELSE IF Lt(e.shipYears, sorted[Len(sorted)].shipYears)
  THEN Append(Inserted(SubSeq(sorted, 1, Len(sorted) - 1), e),
              sorted[Len(sorted)])
  ELSE Append(sorted, e)

\* STAR_ORDER.map(...).sort(...), for the first n stars.
RECURSIVE AllMetrics(_, _)
AllMetrics(n, dv) ==
  IF n = 0 THEN << >>
  ELSE Inserted(AllMetrics(n - 1, dv), calculateStarMetrics(STAR_ORDER[n], dv))

\* The results after the component has mounted: the effect has run for the
\* initial star and delta-v.
MountedResults == calculateStarMetrics("Tau Ceti", N(7200, 1))

MountedAllResults == AllMetrics(Len(STAR_ORDER), N(7200, 1))

(***************************************************************************)
(* The planet brachistochrone calculator (BrachistochroneCalc,             *)
(* src/unnamed/part_000): constants, planets and functions.  Distances are *)
(* in AU and km, accelerations in km/s^2, times in seconds and days.       *)
(***************************************************************************)
\* CONSTANTS.G_MULTIPLIER, 0.0098 km/s^2 per g
G_MULTIPLIER == N(9800, -6)

\* CONSTANTS.G_1_3, 0.00326667 km/s^2
G_1_3 == N(3267, -6)

\* CONSTANTS.AU_TO_KM, 1.496e8
AU_TO_KM == N(1496, 5)

\* calculateMaxVelocity that halves the acceleration as well.
calculateMaxVelocity_Quarter(timeSeconds, accelerationKms2) ==
  Times(Over(accelerationKms2, Two), Over(timeSeconds, Two))

calculateBrachistochroneTime(distanceKm, accelerationKms2) ==
  Times(Two, SqrtOf(Over(distanceKm, accelerationKms2)))

calculateMaxVelocity(timeSeconds, accelerationKms2) ==
  Times(accelerationKms2, Over(timeSeconds, Two))

calculateTotalDeltav(maxVelocity) == Times(Two, maxVelocity)

\* CONSTANTS.G, 0.0098 km/s^2
G_1 == N(9800, -6)

PLANET_ORDER ==
  << "Mercury", "Venus", "Earth", "Mars", "Ceres", "Jupiter", "Saturn",
     "Uranus", "Neptune" >>

\* PLANETS: perihelion and aphelion in AU.
Perihelion ==
  << N(3070, -4), N(7180, -4), N(9830, -4), N(1381, -3), N(2552, -3),
     N(4950, -3), N(9041, -3), N(1838, -2), N(2977, -2) >>

Aphelion ==
  << N(4670, -4), N(7280, -4), N(1017, -3), N(1666, -3), N(2978, -3),
     N(5457, -3), N(1012, -2), N(2006, -2), N(3044, -2) >>

PlanetIndex(planet) == CHOOSE i \in DOMAIN PLANET_ORDER : PLANET_ORDER[i] = planet

\* Math.max(x, y), Math.min(x, y) and Math.abs(x) of numbers that are not NaN.
MaxOf(x, y) == IfGreater(x, y, x, y)

MinOf(x, y) == IfGreater(x, y, y, x)

AbsOf(x) == IfGreater(Zero, x, Minus(Zero, x), x)

\* The seconds of a day.
DaySeconds == N(8640, 1)

\* calculateMetrics(origin, destination, acceleration), with
\* getOrbitalDistances and calculateMedianDistance in it.
calculateMetrics ==
  << << "farPerihelion", MaxOf(Var("p1perihelion"), Var("p2perihelion")) >>,
     << "nearAphelion", MinOf(Var("p1aphelion"), Var("p2aphelion")) >>,
     << "gap", Minus(Var("farPerihelion"), Var("nearAphelion")) >>,
     << "minDist", MaxOf(Zero, Var("gap")) >>,
     << "maxDist", Plus(Var("p1aphelion"), Var("p2aphelion")) >>,
     << "minDistKm", Times(Var("minDist"), AU_TO_KM) >>,
     << "maxDistKm", Times(Var("maxDist"), AU_TO_KM) >>,
     << "minTime",
        calculateBrachistochroneTime(Var("minDistKm"), Var("acceleration")) >>,
     << "maxTime",
        calculateBrachistochroneTime(Var("maxDistKm"), Var("acceleration")) >>,
     << "r1", Over(Plus(Var("p1perihelion"), Var("p1aphelion")), Two) >>,
     << "r2", Over(Plus(Var("p2perihelion"), Var("p2aphelion")), Two) >>,
     << "offEarth", AbsOf(Minus(Var("r1"), One)) >>,
     << "m1", SqrtOf(Plus(One, Times(Var("r1"), Var("r1")))) >>,
     << "m2", SqrtOf(Plus(One, Times(Var("r2"), Var("r2")))) >>,
     << "between", AbsOf(Minus(Var("m2"), Var("m1"))) >>,
     << "medianDist",
        IfGreater(N(1000, -4), Var("offEarth"), Var("m2"), Var("between")) >>,
     << "medianTime",
        calculateBrachistochroneTime(Times(Var("medianDist"), AU_TO_KM),
                                     Var("acceleration")) >>,
     << "minVelocity",
        calculateMaxVelocity(Var("minTime"), Var("acceleration")) >>,
     << "maxVelocity",
        calculateMaxVelocity(Var("maxTime"), Var("acceleration")) >>,
     << "minTimeDays", Over(Var("minTime"), DaySeconds) >>,
     << "maxTimeDays", Over(Var("maxTime"), DaySeconds) >>,
     << "medianTimeDays", Over(Var("medianTime"), DaySeconds) >>,
     << "minDeltaV", calculateTotalDeltav(Var("minVelocity")) >>,
     << "maxDeltaV", calculateTotalDeltav(Var("maxVelocity")) >> >>

\* The consts of calculateMetrics for the planets at positions i and j.
Metrics(i, j, accelerationKms2) ==
  Run(calculateMetrics, 1,
      [acceleration |-> accelerationKms2,
       p1perihelion |-> Perihelion[i], p1aphelion |-> Aphelion[i],
       p2perihelion |-> Perihelion[j], p2aphelion |-> Aphelion[j]])

\* The object calculateMetrics returns.
MetricsOf(origin, destination, accelerationKms2) ==
  CHOOSE r \in
    {[maxVelocity |-> env["maxVelocity"], minDistance |-> env["minDist"],
      maxDistance |-> env["maxDist"], minDistanceKm |-> env["minDistKm"],
      maxDistanceKm |-> env["maxDistKm"], minTime |-> env["minTimeDays"],
      maxTime |-> env["maxTimeDays"],
      medianTime |-> env["medianTimeDays"], minDeltaV |-> env["minDeltaV"],
      maxDeltaV |-> env["maxDeltaV"], minVelocity |-> env["minVelocity"]] :
       env \in {Metrics(PlanetIndex(origin), PlanetIndex(destination),
                        accelerationKms2)}} : TRUE

\* The entry generateMatrix pushes for the planets at positions i < j.
MatrixEntry(i, j, accelerationKms2) ==
  CHOOSE r \in
    {[origin |-> PLANET_ORDER[i], destination |-> PLANET_ORDER[j],
      minTime |-> env["minTimeDays"], maxTime |-> env["maxTimeDays"],
      minDeltaV |-> env["minDeltaV"], maxDeltaV |-> env["maxDeltaV"]] :
       env \in {Metrics(i, j, accelerationKms2)}} : TRUE

\* The entries the inner loop of generateMatrix pushes for the planet at
\* position i: one for every j > i.
PushedFor(i, accelerationKms2) ==
  [n \in 1..(Len(PLANET_ORDER) - i) |-> MatrixEntry(i, i + n, accelerationKms2)]

\* The entries the two nested loops push from position i on.
RECURSIVE Pushed(_, _)
Pushed(i, accelerationKms2) ==
  IF i > Len(PLANET_ORDER) THEN << >>
  ELSE PushedFor(i, accelerationKms2) \o Pushed(i + 1, accelerationKms2)

\* generateMatrix's last line without the sort.
SortedByMinDeltaV_PushOrder(matrix) == matrix

\* matrix.sort((a, b) => a.minDeltaV - b.minDeltaV).  The sort is stable, so
\* the element at position k goes behind the elements with a smaller
\* minDeltaV and behind those with the same minDeltaV that precede it.
SortedByMinDeltaV(matrix) ==
  LET goesBefore(l, k) ==
        \/ Lt(matrix[l].minDeltaV, matrix[k].minDeltaV)
        \/ (l < k /\ ~Lt(matrix[k].minDeltaV, matrix[l].minDeltaV))
  IN CHOOSE r \in
       {[p \in DOMAIN matrix |->
           matrix[CHOOSE k \in DOMAIN matrix : place[k] = p]] :
          place \in {[k \in DOMAIN matrix |->
                       1 + Cardinality({l \in DOMAIN matrix : goesBefore(l, k)})]}} :
       TRUE

generateMatrix(accelerationKms2) ==
  CHOOSE r \in
    {SortedByMinDeltaV(matrix) :
       matrix \in {Pushed(1, accelerationKms2)}} : TRUE

(***************************************************************************)
(* Epstein drive calculator (EpsteinDriveCalculator.jsx).  Its C, the      *)
(* speed of light in m/s, is SPEED_OF_LIGHT.                               *)
(***************************************************************************)
\* 9.461e15, light-years to meters
LY_TO_M == N(9461, 12)

\* 365.25 * 24 * 3600
YEAR_TO_SECONDS == N(3156, 4)

STAR_SYSTEMS ==
  << [name |-> "Tau Ceti", distance |-> N(1190, -2)],
     [name |-> "Alpha Centauri", distance |-> N(4370, -3)],
     [name |-> "Epsilon Eridani", distance |-> N(1050, -2)],
     [name |-> "Barnard's Star", distance |-> N(5960, -3)],
     [name |-> "Sirius", distance |-> N(8600, -3)],
     [name |-> "Proxima Centauri", distance |-> N(4240, -3)],
     [name |-> "Wolf 359", distance |-> N(7860, -3)],
     [name |-> "Lalande 21185", distance |-> N(8290, -3)] >>

\* Original Nauvoo specifications: 13,500 tons, 144 MN, 0.08 c, 0.119 c.
NAUVOO_SPECS ==
  [star |-> STAR_SYSTEMS[1], maxVelocity |-> N(3568, 4),
   dryMass |-> N(1350, 4), thrust |-> N(1440, 5),
   exhaustVelocity |-> N(2398, 4)]

\* Number.MAX_VALUE
MAX_VALUE == N(1798, 305)

\* calculateResults for flightProfile === 'standard': accelerate, coast,
\* decelerate.  "earthYears" is results.earthTime, "shipYears" is
\* results.shipTime.
calculateResults ==
  << << "distance", Times(Var("starDistance"), LY_TO_M) >>,
     << "massFlowRate", Over(Var("thrust"), Var("exhaustVelocity")) >>,
     << "initialAcceleration", Over(Var("thrust"), Var("dryMass")) >>,
     << "powerOutput", Over(Times(Var("thrust"), Var("exhaustVelocity")), Two) >>,
     << "theoreticalPower", Times(Var("massFlowRate"), N(3520, 11)) >>,
     << "actualEfficiency",
        MinOf(Times(Over(Var("powerOutput"), Var("theoreticalPower")),
                    N(1000, -1)),
              N(1000, -1)) >>,
     << "timeToVelocity", Over(Var("maxVelocity"), Var("initialAcceleration")) >>,
     << "fuelForAccel", Times(Var("massFlowRate"), Var("timeToVelocity")) >>,
     << "totalFuelMass", Times(Two, Var("fuelForAccel")) >>,
     << "massRatio",
        Over(Plus(Var("dryMass"), Var("totalFuelMass")), Var("dryMass")) >>,
     << "velocityRatio", Over(Var("maxVelocity"), SPEED_OF_LIGHT) >>,
     << "gamma",
        IfGreater(One, Var("velocityRatio"),
                  Over(One,
                       SqrtOf(Minus(One, Times(Var("velocityRatio"),
                                               Var("velocityRatio"))))),
                  MAX_VALUE) >>,
     << "accelerationDistance",
        Times(Times(N(5000, -4), Var("initialAcceleration")),
              Times(Var("timeToVelocity"), Var("timeToVelocity"))) >>,
     << "coastDistance",
        MaxOf(Zero, Minus(Var("distance"),
                          Times(Two, Var("accelerationDistance")))) >>,
     << "coastTime", Over(Var("coastDistance"), Var("maxVelocity")) >>,
     << "earthTime", Plus(Var("coastTime"), Times(Two, Var("timeToVelocity"))) >>,
     << "shipTime",
        Plus(Over(Var("coastTime"), Var("gamma")),
             Over(Times(Two, Var("timeToVelocity")), Var("gamma"))) >>,
     << "earthYears", Over(Var("earthTime"), YEAR_TO_SECONDS) >>,
     << "shipYears", Over(Var("shipTime"), YEAR_TO_SECONDS) >> >>

(***************************************************************************)
(* State                                                                   *)
(***************************************************************************)
VARIABLES
  fields,         \* the component state `fields`: name -> FieldState
  errorMessage,   \* the component state `errorMessage`
  pc,             \* "idle", or "sweep" while calculateValues is in its loop
  updatedFields,  \* calculateValues' local updatedFields
  aliased,        \* TRUE when updatedFields is the very object `fields`
  changed,        \* calculateValues' local `changed`
  cur,            \* position of the for...in loop in FieldOrder
  sweeps,         \* number of sweeps the current Calculate has started
  pre,            \* history: `fields` when the current Calculate was pressed
  before,         \* history: op and errorMessage when it was pressed
  thrown,         \* history: the message processInput threw in it, or ""
  call,           \* history: what the last visit of a field did
  op,             \* history: the handler that ran last
  typed,          \* history: the fields whose text the user typed
  events,         \* number of user events so far
  invocations,    \* history: per field, how often the current Calculate called its calc
  probe,          \* the last direct application of a function: name, input, result
  selectedStar,   \* delta-v calculator: the component state `selectedStar`
  deltaV,         \* delta-v calculator: the component state `deltaV`, in km/s
  results,        \* delta-v calculator: the component state `results`
  allResults,     \* delta-v calculator: the component state `allResults`
  originPlanet,        \* planet calculator: the component state `originPlanet`
  destinationPlanet,   \* planet calculator: the component state `destinationPlanet`
  planetAcceleration,  \* planet calculator: the component state `acceleration`, km/s^2
  gValue,              \* planet calculator: the component state `gValue`
  planetResults,       \* planet calculator: `results`, << >> for null
  matrixData           \* planet calculator: the component state `matrixData`

\* The state of the rocket calculator component and its history.
component ==
  << fields, errorMessage, pc, updatedFields, aliased, changed, cur, sweeps,
     pre, before, thrown, call, op, typed, events, invocations >>

\* The state of the delta-v calculator component.
deltavCalc == << selectedStar, deltaV, results, allResults >>

\* The state of the planet brachistochrone calculator component.
planetCalc ==
  << originPlanet, destinationPlanet, planetAcceleration, gValue,
     planetResults, matrixData >>

vars == << component, probe, deltavCalc, planetCalc >>

\* Bounds of the exploration: the number of user events, and the inputs the
\* user types or selects.
MaxEvents == 4

InputChoices ==
  { << "distance", Numeral(Zero) >>,
    << "distance", Numeral(N(5000, -2)) >>,
    << "acceleration", Str("") >>,
    << "observer_time", Str("") >>,
    << "observer_time", Numeral(N(2000, -2)) >>,
    << "max_velocity", Numeral(Two) >>,
    << "max_velocity", Numeral(N(5000, -4)) >>,
    << "max_velocity", Str("abc") >> }

UnitChoices ==
  { << "distance", "parsec" >>, << "distance", "meters" >>,
    << "acceleration", "g" >> }

\* No function has been applied directly.
NoProbe == [fn |-> "", args |-> << >>, out |-> NaN]

NoCall ==
  [args |-> << >>, field |-> "", invoked |-> FALSE, threw |-> FALSE,
   missing |-> 0]

Init ==
  /\ fields = InitialFields
  /\ errorMessage = ""
  /\ pc = "idle"
  /\ updatedFields = InitialFields
  /\ aliased = FALSE
  /\ changed = FALSE
  /\ cur = 1
  /\ sweeps = 0
  /\ pre = InitialFields
  /\ before = [errorMessage |-> "", op |-> "init"]
  /\ thrown = ""
  /\ call = NoCall
  /\ op = "init"
  /\ typed = {}
  /\ events = 0
  /\ invocations = [f \in FieldNames |-> 0]
  /\ probe = NoProbe
  /\ selectedStar = "Tau Ceti"
  /\ deltaV = N(7200, 1)
  /\ results = MountedResults
  /\ allResults = MountedAllResults
  /\ originPlanet = "Earth"
  /\ destinationPlanet = "Mars"
  /\ planetAcceleration = G_1_3
  /\ gValue = N(3300, -4)
  /\ planetResults = << MetricsOf("Earth", "Mars", G_1_3) >>
  /\ matrixData = generateMatrix(G_1_3)

(***************************************************************************)
(* handleInputChange, handleUnitChange, clearAll                           *)
(***************************************************************************)
\* The field object handleInputChange stores for the typed text.
InputChanged(fld, f, text) ==
  [fld EXCEPT
     !.displayValue = text,
     !.changed = TRUE,
     !.value = IF StrTruthy(text) /\ ~IsNaN(ParseFloat(text))
               THEN Mul(ParseFloat(text), Units[f][fld.current_unit])
               ELSE EmptyValue]

HandleInputChange(f, text) ==
  /\ pc = "idle"
  /\ events < MaxEvents
  /\ fields' = [fields EXCEPT ![f] = InputChanged(fields[f], f, text)]
  /\ op' = "input"
  /\ typed' = IF StrTruthy(text) THEN typed \cup {f} ELSE typed \ {f}
  /\ events' = events + 1
  /\ UNCHANGED << probe, deltavCalc, planetCalc, invocations, errorMessage, pc, updatedFields, aliased, changed, cur,
                  sweeps, pre, before, thrown, call >>

\* The field object handleUnitChange stores for the selected unit.
UnitChanged(fld, f, newUnit) ==
  LET value == fld.displayValue
      newValue ==
        IF StrTruthy(value) /\ ~IsNaN(ParseFloat(value))
        THEN ToFixed6Stripped(
               Div(Mul(ParseFloat(value), Units[f][fld.current_unit]),
                   Units[f][newUnit]))
        ELSE value
  IN [fld EXCEPT !.displayValue = newValue, !.current_unit = newUnit]

HandleUnitChange(f, newUnit) ==
  /\ pc = "idle"
  /\ events < MaxEvents
  /\ newUnit # fields[f].current_unit
  /\ fields' = [fields EXCEPT ![f] = UnitChanged(fields[f], f, newUnit)]
  /\ op' = "unit"
  /\ events' = events + 1
  /\ UNCHANGED << probe, deltavCalc, planetCalc, invocations, errorMessage, pc, updatedFields, aliased, changed, cur,
                  sweeps, pre, before, thrown, call, typed >>

\* clearAll as it would be if it restored the value initializeFields gave the
\* field, in the default unit.
ClearedField_InitialValue(fld, f) ==
  [fld EXCEPT
     !.displayValue = IF f \in DOMAIN DefVal THEN DefVal[f] ELSE Str(""),
     !.value = IF f \in DOMAIN DefVal
               THEN Mul(ParseFloat(DefVal[f]), Units[f][DefaultUnits[f]])
               ELSE EmptyValue,
     !.changed = FALSE,
     !.set = FALSE]

\* What clearAll makes of one field.
ClearedField(fld, f) ==
  [fld EXCEPT
     !.displayValue = IF f \in DOMAIN DefVal THEN DefVal[f] ELSE Str(""),
     !.value = IF f \in DOMAIN DefVal
               THEN Mul(ParseFloat(DefVal[f]), Units[f][fld.current_unit])
               ELSE EmptyValue,
     !.changed = FALSE,
     !.set = FALSE]

ClearAll ==
  /\ pc = "idle"
  /\ events < MaxEvents
  /\ fields' = [f \in FieldNames |-> ClearedField(fields[f], f)]
  /\ errorMessage' = ""
  /\ op' = "reset"
  /\ typed' = {}
  /\ events' = events + 1
  /\ UNCHANGED << probe, deltavCalc, planetCalc, invocations, pc, updatedFields, aliased, changed, cur, sweeps, pre, before,
                  thrown, call >>

(***************************************************************************)
(* processInput                                                            *)
(***************************************************************************)
\* The copy of one field processInput makes: set cleared, value re-read
\* from displayValue.
Ingested(fld, f) ==
  [fld EXCEPT
     !.set = FALSE,
     !.value = IF StrTruthy(fld.displayValue) /\ ~IsNaN(ParseFloat(fld.displayValue))
               THEN Mul(ParseFloat(fld.displayValue), Units[f][fld.current_unit])
               ELSE EmptyValue]

\* The message processInput throws for the ingested field, or "".
Violation(fld, f) ==
  IF fld.value = EmptyValue THEN ""
  ELSE IF f \in DOMAIN MaxVal /\ Gt(fld.value, MaxVal[f]) /\ f \in DOMAIN MaxError
  THEN MaxError[f]
  ELSE IF f \in DOMAIN MinVal /\ Lt(fld.value, MinVal[f]) /\ f \in DOMAIN MinError
  THEN MinError[f]
  ELSE ""

\* The message of the first field, from position i on, that violates a bound.
RECURSIVE FirstViolation(_, _)
FirstViolation(flds, i) ==
  IF i > Len(FieldOrder) THEN ""
  ELSE LET f == FieldOrder[i]
           v == Violation(Ingested(flds[f], f), f)
       IN IF v # "" THEN v ELSE FirstViolation(flds, i + 1)

\* processInput's result: the fields it returns, whether they are the state
\* object itself, and the message it threw and put in the error box.
ProcessInput(flds) ==
  LET v == FirstViolation(flds, 1) IN
  IF v # ""
  THEN [fields |-> flds, same |-> TRUE, error |-> v]
  ELSE [fields |-> [f \in FieldNames |-> Ingested(flds[f], f)],
        same |-> FALSE, error |-> ""]

(***************************************************************************)
(* processInput of the variant embedded in README.md.  Its acceleration    *)
(* definition has min_value where the other variant has min_val, and its   *)
(* bound tests are field.hasOwnProperty('min_val') and                     *)
(* field.hasOwnProperty('max_val').                                        *)
(***************************************************************************)
\* The fields of README.md's fieldDefinitions that own a min_val.
ReadmeMinVal == [f \in (DOMAIN MinVal) \ {"acceleration"} |-> MinVal[f]]

\* The message README.md's processInput throws for the ingested field, or "".
ReadmeViolation(fld, f) ==
  IF fld.value = EmptyValue THEN ""
  ELSE IF f \in DOMAIN MaxVal /\ Gt(fld.value, MaxVal[f]) /\ f \in DOMAIN MaxError
  THEN MaxError[f]
  ELSE IF f \in DOMAIN ReadmeMinVal /\ Lt(fld.value, ReadmeMinVal[f])
          /\ f \in DOMAIN MinError
  THEN MinError[f]
  ELSE ""

RECURSIVE ReadmeFirstViolation(_, _)
ReadmeFirstViolation(flds, i) ==
  IF i > Len(FieldOrder) THEN ""
  ELSE LET f == FieldOrder[i]
           v == ReadmeViolation(Ingested(flds[f], f), f)
       IN IF v # "" THEN v ELSE ReadmeFirstViolation(flds, i + 1)

ReadmeProcessInput(flds) ==
  LET v == ReadmeFirstViolation(flds, 1) IN
  IF v # ""
  THEN [fields |-> flds, same |-> TRUE, error |-> v]
  ELSE [fields |-> [f \in FieldNames |-> Ingested(flds[f], f)],
        same |-> FALSE, error |-> ""]

(***************************************************************************)
(* calculateValues                                                         *)
(***************************************************************************)
\* calculateValues up to the first sweep: processInput, changed = false.
Calculate ==
  /\ pc = "idle"
  /\ events < MaxEvents
  /\ LET r == ProcessInput(fields) IN
       /\ updatedFields' = r.fields
       /\ aliased' = r.same
       /\ errorMessage' = r.error
       /\ thrown' = r.error
  /\ pre' = fields
  /\ before' = [errorMessage |-> errorMessage, op |-> op]
  /\ changed' = FALSE
  /\ cur' = 1
  /\ sweeps' = 1
  /\ pc' = "sweep"
  /\ call' = NoCall
  /\ op' = "calc"
  /\ events' = events + 1
  /\ invocations' = [f \in FieldNames |-> 0]
  /\ UNCHANGED << probe, deltavCalc, planetCalc, fields, typed >>

\* Eligible without the test that skips a field already set.
Eligible_IgnoringSet(fld, f) ==
  /\ HasCalc(f)
  /\ (fld.value = EmptyValue \/ (~fld.changed /\ f \notin Primary))

\* Eligible without the test that spares primary fields.
Eligible_IgnoringPrimary(fld, f) ==
  /\ ~fld.set
  /\ HasCalc(f)
  /\ (fld.value = EmptyValue \/ ~fld.changed)

\* The test that lets a field be calculated: not set, has a calc, and is
\* empty or a secondary field the user has not changed.
Eligible(fld, f) ==
  /\ ~fld.set
  /\ HasCalc(f)
  /\ (fld.value = EmptyValue \/ (~fld.changed /\ f \notin Primary))

\* Satisfied for every parameter that has a value, stale or not.
Satisfied_AnyValue(pf, pname) == pf.value # EmptyValue

\* Satisfied without the test for an empty value.
Satisfied_IgnoringEmpty(pf, pname) ==
  pf.changed \/ pname \in Primary \/ pf.set

\* The test that makes a parameter's value part of the argument map.
Satisfied(pf, pname) ==
  /\ pf.value # EmptyValue
  /\ (pf.changed \/ pname \in Primary \/ pf.set)

SatisfiedParams(flds, f) ==
  {Parameters[f][i] : i \in {j \in DOMAIN Parameters[f] :
                               Satisfied(flds[Parameters[f][j]], Parameters[f][j])}}

Missing(flds, f) == Len(Parameters[f]) - Cardinality(SatisfiedParams(flds, f))

\* EnoughParameters that lets every field through.
EnoughParameters_Always(f, missing) == TRUE

\* EnoughParameters without max_missing.
EnoughParameters_ZeroMissing(f, missing) == missing = 0

\* "Calculate if we have enough parameters"
EnoughParameters(f, missing) ==
  (f \in DOMAIN MaxMissing /\ missing <= MaxMissing[f]) \/ missing = 0

\* The object `parameters` handed to calc: the satisfied parameters' values,
\* a string value through parseFloat.
ArgumentMap(flds, f) ==
  [n \in SatisfiedParams(flds, f) |->
     IF flds[n].value.k = "str" THEN NaN ELSE flds[n].value]

\* Calculated without marking the field set.
Calculated_Unmarked(fld, f, args) ==
  CHOOSE r \in
    {[fld EXCEPT
        !.value = v,
        !.displayValue = NumberToString(Div(v, Units[f][fld.current_unit]))] :
       v \in {Calc(f, args)}} : TRUE

\* The field after its calc has run.
Calculated(fld, f, args) ==
  CHOOSE r \in
    {[fld EXCEPT
        !.set = TRUE,
        !.value = v,
        !.displayValue = NumberToString(Div(v, Units[f][fld.current_unit]))] :
       v \in {Calc(f, args)}} : TRUE

\* The message of the Error a throwing calc raises.
ThrownMessage == "calc failed"

\* The field after `field.set = true` when its calc then throws: the
\* assignments inside the try never happen.
MarkedOnly(fld) == [fld EXCEPT !.set = TRUE]

\* One iteration of the for...in loop: the field at position cur.  throwers
\* are the fields whose calc throws an Error when it is invoked; no calc of
\* the registry does.
Visit(throwers) ==
  /\ pc = "sweep"
  /\ cur <= Len(FieldOrder)
  /\ LET f     == FieldOrder[cur]
         fld   == updatedFields[f]
         go    == /\ Eligible(fld, f)
                  /\ EnoughParameters(f, Missing(updatedFields, f))
         throw == go /\ f \in throwers
     IN /\ updatedFields' =
             IF throw THEN [updatedFields EXCEPT ![f] = MarkedOnly(fld)]
             ELSE IF go
             THEN [updatedFields EXCEPT
                     ![f] = Calculated(fld, f, ArgumentMap(updatedFields, f))]
             ELSE updatedFields
        /\ changed' = (changed \/ go)
        /\ errorMessage' =
             IF throw THEN ThrownMessage
             ELSE IF go /\ f = "acceleration" THEN AccelerationWarning
             ELSE errorMessage
        /\ call' = [args |-> IF go THEN ArgumentMap(updatedFields, f) ELSE << >>,
                    field |-> f, invoked |-> go,
                    threw |-> throw,
                    missing |-> IF HasCalc(f) THEN Missing(updatedFields, f) ELSE 0]
        /\ typed' = IF go /\ ~throw THEN typed \ {f} ELSE typed
        /\ invocations' =
             IF go THEN [invocations EXCEPT ![f] = @ + 1] ELSE invocations
  /\ fields' = IF aliased THEN updatedFields' ELSE fields
  /\ cur' = cur + 1
  /\ UNCHANGED << probe, deltavCalc, planetCalc, pc, aliased, sweeps, pre, before, thrown, op, events >>

\* The loop body with the registry's calc functions, none of which throws.
VisitField == Visit({})

\* while (changed): start another sweep.
NextSweep ==
  /\ pc = "sweep"
  /\ cur > Len(FieldOrder)
  /\ changed
  /\ changed' = FALSE
  /\ cur' = 1
  /\ sweeps' = sweeps + 1
  /\ UNCHANGED << probe, deltavCalc, planetCalc, invocations, fields, errorMessage, pc, updatedFields, aliased, pre, before,
                  thrown, call, op, typed, events >>

\* The loop ends: setFields(updatedFields).
Commit ==
  /\ pc = "sweep"
  /\ cur > Len(FieldOrder)
  /\ ~changed
  /\ fields' = updatedFields
  /\ pc' = "idle"
  /\ UNCHANGED << probe, deltavCalc, planetCalc, invocations, errorMessage, updatedFields, aliased, changed, cur, sweeps,
                  pre, before, thrown, call, op, typed, events >>

Next ==
  \/ \E c \in InputChoices : HandleInputChange(c[1], c[2])
  \/ \E c \in UnitChoices : HandleUnitChange(c[1], c[2])
  \/ ClearAll
  \/ Calculate
  \/ VisitField
  \/ NextSweep
  \/ Commit

Spec == Init /\ [][Next]_vars

\* calculateValues is synchronous code: once entered, its loop runs on.
FairSpec == Spec /\ WF_vars(VisitField) /\ WF_vars(NextSweep) /\ WF_vars(Commit)

\* The same component with a registry in which the calc of ThrowingCalcs
\* throws: the only way to enter the catch block of calculateValues.
ThrowingCalcs == {"observer_time"}

VisitFieldThrowing == Visit(ThrowingCalcs)

NextThrowing ==
  \/ \E c \in InputChoices : HandleInputChange(c[1], c[2])
  \/ \E c \in UnitChoices : HandleUnitChange(c[1], c[2])
  \/ ClearAll
  \/ Calculate
  \/ VisitFieldThrowing
  \/ NextSweep
  \/ Commit

ThrowSpec == Init /\ [][NextThrowing]_vars

\* The component with an acceleration of 0 among the texts the user types.
VariantNext ==
  \/ Next
  \/ HandleInputChange("acceleration", Numeral(Zero))

VariantSpec == Init /\ [][VariantNext]_vars

(***************************************************************************)
(* calculateValues' loop as a function of the order of the for...in loop   *)
(***************************************************************************)
\* updatedFields after the loop body has run for field f.
Visited(flds, f) ==
  IF Eligible(flds[f], f) /\ EnoughParameters(f, Missing(flds, f))
  THEN [flds EXCEPT ![f] = Calculated(flds[f], f, ArgumentMap(flds, f))]
  ELSE flds

\* updatedFields after one sweep from position i of order on.
RECURSIVE Swept(_, _, _)
Swept(flds, order, i) ==
  IF i > Len(order) THEN flds
  ELSE CHOOSE r \in {Swept(next, order, i + 1) :
                       next \in {Visited(flds, order[i])}} : TRUE

\* do { sweep } while (changed), started as sweep number n: the fields at the
\* end and the number of sweeps made.  A sweep sets `changed` exactly when it
\* marks a field set.
RECURSIVE Solved(_, _, _)
Solved(flds, order, n) ==
  CHOOSE r \in {IF next = flds THEN [fields |-> flds, sweeps |-> n]
                ELSE Solved(next, order, n + 1) :
                  next \in {Swept(flds, order, 1)}} : TRUE

\* Orders of the for...in loop: the four fields that depend on one another
\* (the first four of the registry) in every permutation, followed by the
\* other fields, and each of these orders backwards.
MutuallyDependent == 4

CoreFirst(pi) ==
  [i \in 1..Len(FieldOrder) |->
     IF i <= MutuallyDependent THEN FieldOrder[pi[i]] ELSE FieldOrder[i]]

Backwards(order) == [i \in 1..Len(order) |-> order[Len(order) + 1 - i]]

VisitOrders ==
  {CoreFirst(pi) : pi \in Permutations(1..MutuallyDependent)}
    \cup {Backwards(CoreFirst(pi)) : pi \in Permutations(1..MutuallyDependent)}

(***************************************************************************)
(* The formula functions applied directly                                  *)
(***************************************************************************)
\* The values a formula is applied to, per parameter, in SI units: zero, a
\* value inside the formula's domain, and values at and beyond its edge.
ProbeValues ==
  [distance |-> {Zero, N(1060, 14)},
   acceleration |-> {Zero, N(9800, -3), Neg(N(9800, -3))},
   max_velocity |-> {Zero, N(2998, 4), N(1499, 5), SPEED_OF_LIGHT, N(5996, 5)},
   observer_time |-> {Zero, N(6312, 5)},
   spacecraft_mass |-> {N(1000, 0), N(2500, 1)},
   fuel_mass |-> {Zero, N(2500, 3)},
   fuel_conversion_rate |-> {N(8000, -6), N(1000, -5), N(3000, -4), N(7000, -4)},
   traveler_length |-> {N(1000, -1)},
   observer_length |-> {N(8660, -2)}]

AllProbeValues == UNION {ProbeValues[n] : n \in DOMAIN ProbeValues}

ParameterSet(f) == {Parameters[f][i] : i \in DOMAIN Parameters[f]}

\* The argument maps for the calc of f: any subset of its parameters present.
ArgumentMaps(f) ==
  UNION {{m \in [S -> AllProbeValues] : \A n \in S : m[n] \in ProbeValues[n]} :
           S \in SUBSET ParameterSet(f)}

\* calc of field f called with the argument map p.
ApplyFormula(f, p) ==
  /\ probe' = [fn |-> f, args |-> p, out |-> Calc(f, p)]
  /\ UNCHANGED << component, deltavCalc, planetCalc >>

\* calcFuelMass, and then calcFuelConversionRate on the same velocity and
\* mass and on the fuel mass it returned.
FuelRoundTrip(p) ==
  Calc("fuel_conversion_rate",
       [n \in {"max_velocity", "spacecraft_mass", "fuel_mass"} |->
          IF n = "fuel_mass" THEN Calc("fuel_mass", p) ELSE p[n]])

ApplyFuelRoundTrip(p) ==
  /\ probe' = [fn |-> "fuel_round_trip", args |-> p, out |-> FuelRoundTrip(p)]
  /\ UNCHANGED << component, deltavCalc, planetCalc >>

FormulaNext ==
  \/ \E f \in DOMAIN Parameters : \E p \in ArgumentMaps(f) : ApplyFormula(f, p)
  \/ \E p \in ArgumentMaps("fuel_mass") :
       /\ DOMAIN p = ParameterSet("fuel_mass")
       /\ ApplyFuelRoundTrip(p)

FormulaSpec == Init /\ [][FormulaNext]_vars

(***************************************************************************)
(* The planet brachistochrone calculator's three formula functions,        *)
(* applied directly                                                        *)
(***************************************************************************)
\* Distances between planetary orbits, in AU, from Earth-Mars at their
\* closest (0.364) to Uranus-Neptune at their farthest (50.504), and
\* accelerations in g that the slider (0.1 to 20) and the presets give.
OrbitDistancesAU ==
  {N(3640, -4), N(5160, -4), N(2550, -4), N(1745, -3), N(1484, -3),
   N(2683, -3), N(3933, -3), N(6474, -3), N(1114, -2), N(2108, -2),
   N(3146, -2), N(5050, -2)}

SliderG ==
  {N(1000, -4), N(5000, -4), One, N(1500, -3), Two, N(5000, -3),
   N(1000, -2), N(2000, -2)}

Accelerations == {G_1_3} \cup {Mul(G_MULTIPLIER, g) : g \in SliderG}

\* The three functions applied as calculateMetrics chains them: the time for
\* the distance, the velocity at the midpoint, and the delta-v.
ApplyBrachistochrone(distanceKm, accelerationKms2) ==
  /\ \E T \in {Eval(calculateBrachistochroneTime(distanceKm, accelerationKms2))} :
       \E v \in {Eval(calculateMaxVelocity(T, accelerationKms2))} :
         probe' = [fn |-> "brachistochrone",
                   args |-> [distanceKm |-> distanceKm,
                             accelerationKms2 |-> accelerationKms2],
                   out |-> [time |-> T, maxVelocity |-> v,
                            deltav |-> Eval(calculateTotalDeltav(v))]]
  /\ UNCHANGED << component, deltavCalc, planetCalc >>

BrachistochroneNext ==
  \E au \in OrbitDistancesAU : \E a \in Accelerations :
    ApplyBrachistochrone(Mul(au, AU_TO_KM), a)

BrachistochroneSpec == Init /\ [][BrachistochroneNext]_vars

(***************************************************************************)
(* The planet brachistochrone calculator's handlers, each with the effect  *)
(* that follows it                                                         *)
(***************************************************************************)
\* The planets chosen in the two dropdowns, and the positions of the
\* acceleration slider (min 0.1, max 20, step 0.1), in g.
PlanetChoices == {"Mercury", "Earth", "Mars", "Neptune"}

PlanetSliderG == {N(1000, -4), N(2000, -2)}

\* useEffect([originPlanet, destinationPlanet, acceleration]): with the same
\* planet on both sides it sets results to null and returns.
PlanetEffect(origin, destination, accelerationKms2) ==
  IF origin = destination
  THEN /\ planetResults' = << >>
       /\ matrixData' = matrixData
  ELSE /\ planetResults' = << MetricsOf(origin, destination, accelerationKms2) >>
       /\ matrixData' = generateMatrix(accelerationKms2)

\* onChange of the origin dropdown.
SetOriginPlanet(planet) ==
  /\ originPlanet' = planet
  /\ PlanetEffect(planet, destinationPlanet, planetAcceleration)
  /\ UNCHANGED << component, probe, deltavCalc, destinationPlanet,
                  planetAcceleration, gValue >>

\* onChange of the destination dropdown.
SetDestinationPlanet(planet) ==
  /\ destinationPlanet' = planet
  /\ PlanetEffect(originPlanet, planet, planetAcceleration)
  /\ UNCHANGED << component, probe, deltavCalc, originPlanet,
                  planetAcceleration, gValue >>

HandleAccelerationChange(value) ==
  /\ gValue' = value
  /\ \E a \in {Mul(G_MULTIPLIER, value)} :
       /\ planetAcceleration' = a
       /\ PlanetEffect(originPlanet, destinationPlanet, a)
  /\ UNCHANGED << component, probe, deltavCalc, originPlanet,
                  destinationPlanet >>

SetPresetAcceleration(preset) ==
  /\ preset \in {"1/3g", "1g"}
  /\ gValue' = IF preset = "1/3g" THEN N(3300, -4) ELSE One
  /\ \E a \in {IF preset = "1/3g" THEN G_1_3 ELSE G_1} :
       /\ planetAcceleration' = a
       /\ PlanetEffect(originPlanet, destinationPlanet, a)
  /\ UNCHANGED << component, probe, deltavCalc, originPlanet,
                  destinationPlanet >>

PlanetNext ==
  \/ \E planet \in PlanetChoices : SetOriginPlanet(planet)
  \/ \E planet \in PlanetChoices : SetDestinationPlanet(planet)
  \/ \E value \in PlanetSliderG : HandleAccelerationChange(value)
  \/ \E preset \in {"1/3g", "1g"} : SetPresetAcceleration(preset)

PlanetSpec == Init /\ [][PlanetNext]_vars

(***************************************************************************)
(* The delta-v calculator's handlers, each with the effect that follows    *)
(* it, and calculateRelativisticTravelTime applied directly                *)
(***************************************************************************)
\* Positions of the delta-v slider (min 1000, max 200000, step 1000).
SliderValues ==
  {N(1000, 0), N(3600, 1), N(7200, 1), N(1000, 2), N(1500, 2), N(1800, 2),
   N(2000, 2)}

\* useEffect([selectedStar, deltaV]): setResults, setAllResults.
Effect(star, dv) ==
  /\ results' = calculateStarMetrics(star, dv)
  /\ allResults' = AllMetrics(Len(STAR_ORDER), dv)

\* onChange of the star dropdown.
SelectStar(star) ==
  /\ selectedStar' = star
  /\ Effect(star, deltaV)
  /\ UNCHANGED << component, probe, planetCalc, deltaV >>

\* handleDeltaVChange: the slider is moved to value.
HandleDeltaVChange(value) ==
  /\ deltaV' = value
  /\ Effect(selectedStar, value)
  /\ UNCHANGED << component, probe, planetCalc, selectedStar >>

\* The preset button for 72,000 km/s.
PresetStandard ==
  /\ deltaV' = N(7200, 1)
  /\ Effect(selectedStar, N(7200, 1))
  /\ UNCHANGED << component, probe, planetCalc, selectedStar >>

\* The Project Hail Mary preset button.
PresetHailMary ==
  /\ deltaV' = DELTA_V
  /\ Effect(selectedStar, DELTA_V)
  /\ UNCHANGED << component, probe, planetCalc, selectedStar >>

DeltaVNext ==
  \/ \E i \in DOMAIN STAR_ORDER : SelectStar(STAR_ORDER[i])
  \/ \E value \in SliderValues : HandleDeltaVChange(value)
  \/ PresetStandard
  \/ PresetHailMary

DeltaVSpec == Init /\ [][DeltaVNext]_vars

\* 2 * accelerationDistance for delta-v dv: the distance at which the coast
\* phase of the dv <= c branch has length 0.
TwiceAccelerationDistance(dv) ==
  Run(LowDeltaV, 1, [dv |-> dv, distanceKm |-> Zero])["twiceAccelerationDistance"]

\* Delta-v values, up to c and beyond it, and distances in km: stars of the
\* table, distances too short for a coast phase, and for each delta-v the
\* distance at which the coast phase begins.
TravelDeltaVs ==
  {N(1000, 0), N(3600, 1), N(7200, 1), N(2000, 2), N(2990, 2), C,
   N(4000, 2), DELTA_V}

TravelDistances(dv) ==
  {Mul(StarDistances[i], LY_TO_KM) : i \in {1, 4, 8, Len(STAR_ORDER)}}
    \cup {N(1000, 5), N(1000, 7), N(1000, 9), N(5000, 8), N(2000, 9),
          N(1000, 10), N(5000, 9), N(2000, 10)}
    \cup {TwiceAccelerationDistance(dv)}

ApplyRelativisticTravelTime(distanceKm, dv) ==
  /\ probe' = [fn |-> "calculateRelativisticTravelTime",
               args |-> [dv |-> dv, distanceKm |-> distanceKm],
               out |-> calculateRelativisticTravelTime(distanceKm, dv)]
  /\ UNCHANGED << component, deltavCalc, planetCalc >>

\* calculateTravelTime(distanceKm, dv), with the acceleration it used.
ApplyTravelTime(distanceKm, dv) ==
  /\ \E env \in {Run(calculateTravelTime, 1,
                      [dv |-> dv, distanceKm |-> distanceKm])} :
       probe' = [fn |-> "calculateTravelTime",
                 args |-> [acceleration |-> env["acceleration"],
                           dv |-> dv,
                           accelerationTime |-> env["accelerationTime"],
                           distanceKm |-> distanceKm, accelerationDistance |-> env["accelerationDistance"]],
                 out |-> env["return"]]
  /\ UNCHANGED << component, deltavCalc, planetCalc >>

TravelTimeNext ==
  \E dv \in TravelDeltaVs : \E distanceKm \in TravelDistances(dv) :
    \/ ApplyRelativisticTravelTime(distanceKm, dv)
    \/ ApplyTravelTime(distanceKm, dv)

TravelTimeSpec == Init /\ [][TravelTimeNext]_vars

(***************************************************************************)
(* calculateResults of the Epstein drive calculator, applied to the        *)
(* settings its sliders and its star list allow.                           *)
(***************************************************************************)
\* dryMass: the Nauvoo's and the top of the slider (1e6 .. 1e8, step 1e6)
DryMasses == {NAUVOO_SPECS.dryMass, N(1000, 5)}

\* thrust: the Nauvoo's and the bottom of the slider (1e6 .. 1e9, step 1e6)
Thrusts == {NAUVOO_SPECS.thrust, N(1000, 3)}

\* exhaustVelocity: 0.08 c; it enters the fuel and power figures only
ExhaustVelocities == {NAUVOO_SPECS.exhaustVelocity}

\* maxVelocity: 0.119 c, and 0.01 c, 0.46 c and 0.91 c of the slider
\* (0.01 c .. 0.95 c, step 0.05 c)
MaxVelocities == {NAUVOO_SPECS.maxVelocity, N(2998, 3), N(1379, 5), N(2728, 5)}

\* The locals and results of calculateResults for one setting.
ApplyCalculateResults(dryMass, thrust, exhaustVelocity, maxVelocity, star) ==
  /\ \E env \in {Run(calculateResults, 1,
                      [maxVelocity |-> maxVelocity, dryMass |-> dryMass,
                       thrust |-> thrust,
                       exhaustVelocity |-> exhaustVelocity,
                       starDistance |-> star.distance])} :
       probe' = [fn |-> "calculateResults",
                 args |-> [distance |-> env["distance"],
                           star |-> star.name,
                           maxVelocity |-> maxVelocity,
                           accelerationDistance |-> env["accelerationDistance"],
                           timeToVelocity |-> env["timeToVelocity"],
                           coastDistance |-> env["coastDistance"]],
                 out |-> env["earthYears"]]
  /\ UNCHANGED << component, deltavCalc, planetCalc >>

EpsteinNext ==
  \E dryMass \in DryMasses, thrust \in Thrusts,
     exhaustVelocity \in ExhaustVelocities, maxVelocity \in MaxVelocities,
     i \in DOMAIN STAR_SYSTEMS :
    ApplyCalculateResults(dryMass, thrust, exhaustVelocity, maxVelocity,
                          STAR_SYSTEMS[i])

EpsteinSpec == Init /\ [][EpsteinNext]_vars

(***************************************************************************)
(* Properties                                                              *)
(***************************************************************************)
\* A Calculate has run to its end and nothing has happened since.
AfterCalculate == op = "calc" /\ pc = "idle"

\* The fields as the sweeps of the current Calculate received them:
\* processInput's result on the state in which Calculate was pressed.
Ingest == ProcessInput(pre).fields

NonEmpty(fld) == fld.value # EmptyValue

\* C1: when processInput finds an entered value outside its bounds, Calculate
\* stops there: no calc is invoked, and every field's value, displayValue
\* and set flag are what they were when Calculate was pressed.
C1_ValidationErrorStopsCalculate ==
  (op = "calc" /\ FirstViolation(pre, 1) # "") =>
    /\ ~call.invoked
    /\ \A f \in FieldNames :
         /\ fields[f].value = pre[f].value
         /\ fields[f].displayValue = pre[f].displayValue
         /\ fields[f].set = pre[f].set

\* C2: when some entered value violates a bound, the error message shown
\* after Calculate is the min_error / max_error of the first violating field
\* in registry order.
C2_ErrorMessageIsTheViolatedBounds ==
  (AfterCalculate /\ FirstViolation(pre, 1) # "") =>
    errorMessage = FirstViolation(pre, 1)

\* distance and observer_time entered by the user, acceleration cleared, all
\* other fields as initializeFields left them.
DistanceAndTimeEntered(flds) ==
  /\ flds["distance"].changed /\ NonEmpty(flds["distance"])
  /\ flds["observer_time"].changed /\ NonEmpty(flds["observer_time"])
  /\ flds["acceleration"].changed
  /\ flds["acceleration"].displayValue = Str("")
  /\ \A f \in FieldNames \ {"distance", "observer_time", "acceleration"} :
       flds[f] = InitialFields[f]

\* C3: with distance and observer_time entered and acceleration cleared, one
\* Calculate leaves acceleration, max_velocity and traveler_time non-empty
\* and set, none of them typed by the user.
C3_DerivesFromDistanceAndTime ==
  (AfterCalculate /\ DistanceAndTimeEntered(pre)) =>
    \A f \in {"acceleration", "max_velocity", "traveler_time"} :
      fields[f].set /\ NonEmpty(fields[f]) /\ f \notin typed

\* A Calculate on 50 light-years in 20 years has derived a positive finite
\* acceleration, a finite speed and a finite traveler time.
C3_Witness ==
  /\ AfterCalculate /\ DistanceAndTimeEntered(pre)
  /\ FirstViolation(pre, 1) = ""
  /\ \A f \in {"acceleration", "max_velocity", "traveler_time"} :
       fields[f].set /\ IsFinite(fields[f].value) /\ Gt(fields[f].value, Zero)

\* C4: with distance and observer_time entered and acceleration cleared, so
\* that the solver derives acceleration, the error message is empty after
\* Calculate.
C4_NoErrorWhenAccelerationDerived ==
  ( /\ AfterCalculate /\ DistanceAndTimeEntered(pre)
    /\ FirstViolation(pre, 1) = "" /\ fields["acceleration"].set ) =>
    errorMessage = ""

NumCalcFields == Cardinality(DOMAIN Parameters)

\* The fields the current Calculate has marked set so far.
NewlySet ==
  LET ingested == Ingest
  IN {f \in FieldNames : updatedFields[f].set /\ ~ingested[f].set}

\* Every sweep that was followed by another one, and the current sweep once
\* it has computed something, marked a field set that was not set before;
\* there are at most NumCalcFields + 1 sweeps.
SweepsMakeProgress ==
  pc = "sweep" =>
    /\ sweeps <= NumCalcFields + 1
    /\ Cardinality(NewlySet) >= (sweeps - 1) + (IF changed THEN 1 ELSE 0)

\* C5: the derivation loop of Calculate terminates: every sweep followed by
\* another newly marks a field set, the number of sweeps is at most the
\* number of fields with a calc plus one, and the loop is always left.
C5_DerivationLoopTerminates ==
  /\ []SweepsMakeProgress
  /\ (pc = "sweep") ~> (pc = "idle")

\* A Calculate in its third sweep.
C5_Witness == pc = "sweep" /\ sweeps >= 3 /\ Cardinality(NewlySet) >= 2

\* C6: a calc is invoked only when the number of its field's unsatisfied
\* dependencies is 0, or at most max_missing where that is declared; a
\* dependency is satisfied exactly when it is non-empty and changed, primary
\* or set; calc receives exactly the satisfied dependencies' values.
C6_CalcOnlyWithEnoughDependencies ==
  call.invoked =>
    LET f           == call.field
        deps        == {Parameters[f][i] : i \in DOMAIN Parameters[f]}
        satisfied   == {n \in deps :
                         /\ updatedFields[n].value # EmptyValue
                         /\ \/ updatedFields[n].changed
                            \/ n \in Primary
                            \/ updatedFields[n].set}
        unsatisfied == Cardinality(deps \ satisfied)
    IN /\ \/ unsatisfied = 0
          \/ f \in DOMAIN MaxMissing /\ unsatisfied <= MaxMissing[f]
       /\ DOMAIN call.args = satisfied
       /\ \A n \in satisfied : call.args[n] = updatedFields[n].value

\* calcAcceleration has been invoked with max_velocity missing.
C6_Witness ==
  /\ call.invoked /\ call.field = "acceleration" /\ call.missing = 1
  /\ DOMAIN call.args = {"distance", "observer_time"}

\* A value the solver must treat as input: non-empty, in a primary field or
\* in a field the user has edited.
TreatedAsInput(fld, f) == NonEmpty(fld) /\ (f \in Primary \/ fld.changed)

\* C7: Calculate never overwrites a value it must treat as input: through
\* every sweep such a field keeps its value and text, and no calc is invoked
\* for it.
C7_InputsAreNotOverwritten ==
  op = "calc" =>
    LET ingested == Ingest IN
    \A f \in FieldNames :
      TreatedAsInput(ingested[f], f) =>
        /\ updatedFields[f].value = ingested[f].value
        /\ updatedFields[f].displayValue = pre[f].displayValue
        /\ ~(call.invoked /\ call.field = f)
        /\ pc = "idle" => fields[f].value = ingested[f].value

\* A Calculate kept the max_velocity the user typed and the default
\* distance, and derived fuel_mass and observer_time around them.
C7_Witness ==
  /\ AfterCalculate /\ FirstViolation(pre, 1) = ""
  /\ "max_velocity" \in typed /\ pre["max_velocity"].changed
  /\ fields["max_velocity"].value = Ingest["max_velocity"].value
  /\ fields["distance"].value = Ingest["distance"].value
  /\ fields["fuel_mass"].set /\ fields["observer_time"].set

\* C8: a secondary field whose value the user did not type is recomputed on
\* every Calculate in which its dependencies are satisfied: after Calculate
\* its value is the one its calc derives from the current dependency values.
C8_UntypedSecondaryIsRecomputed ==
  (AfterCalculate /\ FirstViolation(pre, 1) = "") =>
    \A f \in (DOMAIN Parameters) \ Primary :
      (f \notin typed /\ Missing(fields, f) = 0) =>
        fields[f].set /\ fields[f].value = Calc(f, ArgumentMap(fields, f))

\* C9: after Reset every field with def_val holds its default, with the
\* displayValue and base-unit value it had after initialization, every other
\* field is empty, all changed and set flags are false, and the error
\* message is empty.
C9_ResetRestoresInitialValues ==
  op = "reset" =>
    /\ errorMessage = ""
    /\ \A f \in FieldNames :
         /\ fields[f].displayValue = InitialFields[f].displayValue
         /\ fields[f].value = InitialFields[f].value
         /\ ~fields[f].changed
         /\ ~fields[f].set

\* A finite number within the field's declared bounds.
WithinBounds(f, v) ==
  /\ IsFinite(v)
  /\ f \in DOMAIN MinVal => ~Lt(v, MinVal[f])
  /\ f \in DOMAIN MaxVal => ~Gt(v, MaxVal[f])

\* C10: after Calculate a field is set if and only if its value is a finite
\* number within the field's bounds.
C10_SetIffFiniteWithinBounds ==
  AfterCalculate =>
    \A f \in FieldNames : fields[f].set <=> WithinBounds(f, fields[f].value)

AllPresent == probe.fn \in DOMAIN Parameters /\ DOMAIN probe.args = ParameterSet(probe.fn)

\* An argument the formulas are not defined for: a velocity of c or more, an
\* acceleration or a distance that is not positive.
OutsideDomain(p) ==
  \/ "max_velocity" \in DOMAIN p /\ ~Lt(p["max_velocity"], SPEED_OF_LIGHT)
  \/ "acceleration" \in DOMAIN p /\ ~Gt(p["acceleration"], Zero)
  \/ "distance" \in DOMAIN p /\ ~Gt(p["distance"], Zero)

\* C12: a formula function given a velocity of c or more, or an acceleration
\* or distance that is not positive, signals an error: it never returns NaN
\* or an infinity.
C12_FormulasNeverReturnNonFinite ==
  (AllPresent /\ OutsideDomain(probe.args)) => IsFinite(probe.out)

\* The reduced form of the acceleration that uses only the parameters present
\* in p: 2(d/2)/(T/2)^2, or v^2/d, or 2v/T.
ReducedForm(p) ==
  LET d == Param(p, "distance")
      T == Param(p, "observer_time")
      v == Param(p, "max_velocity")
  IN IF {"distance", "observer_time"} \subseteq DOMAIN p
     THEN Over(Times(Two, Over(d, Two)), Times(Over(T, Two), Over(T, Two)))
     ELSE IF {"distance", "max_velocity"} \subseteq DOMAIN p
     THEN Over(Times(v, v), d)
     ELSE Over(Times(Two, v), T)

\* C15: calcAcceleration, given at most one of distance, observer_time and
\* max_velocity missing, returns the reduced form over the parameters that
\* are present, also when a present parameter is 0.
C15_AccelerationUsesPresentParameters ==
  (probe.fn = "acceleration" /\ Cardinality(DOMAIN probe.args) >= 2)
    => probe.out = Eval(ReducedForm(probe.args))

\* |a|
Abs(a) == IF a.k \in {"fin", "inf"} THEN [a EXCEPT !.s = 1] ELSE a

\* The relative tolerance of a result that went through a few roundings of
\* the number format: 2 parts in 1000 for four digit mantissas.
Tolerance == N(2000, -6)

Close(a, b) ==
  IsFinite(a) /\ IsFinite(b) /\ ~Gt(Abs(Sub(a, b)), Mul(Tolerance, Abs(b)))

\* A round trip from a velocity below c, a positive mass and a positive rate.
ValidRoundTrip ==
  /\ probe.fn = "fuel_round_trip"
  /\ Gt(probe.args["max_velocity"], Zero)
  /\ Lt(probe.args["max_velocity"], SPEED_OF_LIGHT)
  /\ Gt(probe.args["spacecraft_mass"], Zero)
  /\ Gt(probe.args["fuel_conversion_rate"], Zero)

Unsatisfied(flds, f) ==
  /\ HasCalc(f)
  /\ Missing(flds, f) > (IF f \in DOMAIN MaxMissing THEN MaxMissing[f] ELSE 0)

\* The loop visits an empty field whose parameters are not sufficiently
\* satisfied: the visit changes neither a field nor the error message, and
\* the loop goes on.
SkipsUnsatisfied ==
  (/\ pc = "sweep" /\ cur' = cur + 1
   /\ updatedFields[FieldOrder[cur]].value = EmptyValue
   /\ Unsatisfied(updatedFields, FieldOrder[cur]))
    => /\ updatedFields' = updatedFields
       /\ errorMessage' = errorMessage
       /\ fields' = fields
       /\ pc' = "sweep"

\* After Calculate a field that was empty and is still not sufficiently
\* satisfied is empty, with the set flag the sweeps received it with, and the
\* error message is the one processInput or a calc that ran has set.
UnsatisfiedStaysEmpty ==
  AfterCalculate =>
    /\ \A f \in FieldNames :
         (Ingest[f].value = EmptyValue /\ Unsatisfied(fields, f))
           => fields[f].value = EmptyValue /\ fields[f].set = Ingest[f].set
    /\ errorMessage \in {thrown, AccelerationWarning}

\* C14: when a field is empty and more of its parameters are unsatisfied
\* than max_missing allows, Calculate completes normally, leaves the field
\* empty and raises no error message on account of it.
C14_UnsatisfiedFieldIsLeftEmptyWithoutError ==
  /\ [][SkipsUnsatisfied]_vars
  /\ []UnsatisfiedStaysEmpty
  /\ ((pc = "sweep") ~> (pc = "idle"))

C14_Witness ==
  /\ AfterCalculate
  /\ thrown = "" /\ errorMessage = ""
  /\ \E f \in FieldNames :
       Ingest[f].value = EmptyValue /\ Unsatisfied(fields, f)

\* A step of the derivation loop keeps every set flag that is true, and does
\* not call the calc of a field that is set.
SetFlagsOnlyRise ==
  (pc = "sweep")
    => /\ \A f \in FieldNames : updatedFields[f].set => updatedFields'[f].set
       /\ \A f \in FieldNames :
            updatedFields[f].set => invocations'[f] = invocations[f]

\* C20: within one Calculate the calc of each field is invoked at most once:
\* a field marked set is skipped from then on, and no set flag goes from
\* true back to false during the pass.
C20_CalcInvokedAtMostOncePerPass ==
  /\ [](\A f \in FieldNames : invocations[f] <= 1)
  /\ [][SetFlagsOnlyRise]_vars

\* A pass in its second sweep or later visits a field it has already set.
C20_Witness ==
  /\ pc = "sweep" /\ sweeps >= 2 /\ cur <= Len(FieldOrder)
  /\ updatedFields[FieldOrder[cur]].set
  /\ invocations[FieldOrder[cur]] = 1

\* The result of the loop that the component ran, as Solved computes it for
\* the registry's order.
LoopIsSolved ==
  AfterCalculate =>
    LET r == Solved(Ingest, FieldOrder, 1)
    IN r.fields = fields /\ r.sweeps = sweeps

\* C13: the fields (values and set flags) that Calculate leaves are the same
\* for every order in which a sweep visits the fields; only the number of
\* sweeps may differ.
C13_ResultIndependentOfVisitOrder ==
  AfterCalculate =>
    LET ingested == Ingest
    IN /\ Solved(ingested, FieldOrder, 1).fields = fields
       /\ \A order \in VisitOrders : Solved(ingested, order, 1).fields = fields

\* A Calculate that derived fields in several sweeps, and that another order
\* finishes in a different number of sweeps.
C13_Witness ==
  /\ AfterCalculate /\ sweeps >= 3 /\ thrown = ""
  /\ \E order \in VisitOrders : Solved(Ingest, order, 1).sweeps # sweeps

\* The three functions were applied to a positive distance and acceleration.
BrachistochroneApplied ==
  /\ probe.fn = "brachistochrone"
  /\ Gt(probe.args.distanceKm, Zero)
  /\ Gt(probe.args.accelerationKms2, Zero)

\* 2 * (1/2 * a * (T/2)^2), the distance covered in time T.
RoundTripDistance(T, a) ==
  Times(Two, Times(Over(One, Two), Times(a, Times(Over(T, Two), Over(T, Two)))))

\* C18: for a > 0 and d > 0, T = calculateBrachistochroneTime(d, a) has
\* T^2 = 4d/a, calculateMaxVelocity(T, a) = a * T/2,
\* calculateTotalDeltav(v) = 2v, and d = 2 * (1/2 * a * (T/2)^2).
C18_BrachistochroneIdentities ==
  BrachistochroneApplied =>
    LET d == probe.args.distanceKm
        a == probe.args.accelerationKms2
        T == probe.out.time
    IN /\ Eval(Times(T, T)) = Eval(Over(Times(N(4000, -3), d), a))
       /\ probe.out.maxVelocity = Eval(Times(a, Over(T, Two)))
       /\ probe.out.deltav = Eval(Times(Two, probe.out.maxVelocity))
       /\ Eval(RoundTripDistance(T, a)) = d

\* C18, amended: the identities that go through the square root hold within
\* the tolerance of the floating-point format.
C18_BrachistochroneIdentitiesWithinTolerance ==
  BrachistochroneApplied =>
    LET d == probe.args.distanceKm
        a == probe.args.accelerationKms2
        T == probe.out.time
    IN /\ Close(Eval(Times(T, T)), Eval(Over(Times(N(4000, -3), d), a)))
       /\ probe.out.maxVelocity = Eval(Times(a, Over(T, Two)))
       /\ probe.out.deltav = Eval(Times(Two, probe.out.maxVelocity))
       /\ Close(Eval(RoundTripDistance(T, a)), d)

C18_Witness ==
  /\ BrachistochroneApplied
  /\ IsFinite(probe.out.time) /\ Gt(probe.out.deltav, probe.out.maxVelocity)
  /\ Eval(RoundTripDistance(probe.out.time, probe.args.accelerationKms2))
       # probe.args.distanceKm

\* calculateRelativisticTravelTime has been applied to a distance and a
\* delta-v.
TravelTimeApplied == probe.fn = "calculateRelativisticTravelTime"

\* The phases of a trip with a coast phase, from what the acceleration phase
\* gives: coast distance, coast time, and both totals in years.
CoastPhases ==
  << << "coastDistance",
        Minus(Var("distanceKm"), Var("twiceAccelerationDistance")) >>,
     << "coastTime", Over(Var("coastDistance"), Var("effectiveMaxVelocity")) >>,
     << "earthYears",
        Over(Plus(Times(Two, Var("accelerationTime")), Var("coastTime")),
             YearSeconds) >>,
     << "shipYears",
        Over(Plus(Times(Two, Var("accelerationTime")),
                  Over(Var("coastTime"), Var("gamma"))),
             YearSeconds) >> >>

\* With a coast phase the coast distance is distance - 2*accelerationDistance
\* >= 0 and the totals are 2*accelerationTime + coastTime (Earth) and
\* 2*accelerationTime + coastTime/gamma (ship).
CoastTotals(acc) ==
  \A phases \in {Run(CoastPhases, 1, acc)} :
    /\ ~Lt(phases["coastDistance"], Zero)
    /\ probe.out.earthYears = phases["earthYears"]
    /\ probe.out.shipYears = phases["shipYears"]

Hundred == N(1000, -1)

NotFasterThanLight(metrics) ==
  /\ ~Gt(metrics.maxVelocity, C)
  /\ ~Gt(metrics.lightSpeedPercentage, Hundred)

\* C17: for every star and every delta-v the slider and the presets can set,
\* the maximum velocity in the results (maxVelocity, lightSpeedPercentage),
\* for the selected star and in the table of all stars, is at most the speed
\* of light.
C17_MaxVelocityNeverExceedsLightSpeed ==
  /\ NotFasterThanLight(results)
  /\ \A i \in DOMAIN allResults : NotFasterThanLight(allResults[i])

\* calculateTravelTime was applied to a positive distance that is too short
\* for a coast phase: accelerationDistance > distanceKm / 2.
NoCoastTravelTime ==
  /\ probe.fn = "calculateTravelTime"
  /\ Gt(probe.args.distanceKm, Zero)
  /\ Gt(probe.args.accelerationDistance,
        Eval(Over(probe.args.distanceKm, Two)))

OneEntryPerPair(matrix) ==
  /\ Len(matrix) = 36
  /\ \A n \in DOMAIN matrix :
       PlanetIndex(matrix[n].origin) < PlanetIndex(matrix[n].destination)
  /\ \A i, j \in DOMAIN PLANET_ORDER :
       i < j =>
         Cardinality({n \in DOMAIN matrix :
                        /\ matrix[n].origin = PLANET_ORDER[i]
                        /\ matrix[n].destination = PLANET_ORDER[j]}) = 1

NonDecreasingMinDeltaV(matrix) ==
  \A n \in DOMAIN matrix :
    n > 1 => ~Lt(matrix[n].minDeltaV, matrix[n - 1].minDeltaV)

\* C22: the matrix generateMatrix returned has exactly one entry for every
\* unordered pair of distinct planets (36 for the 9 planets, the origin
\* preceding the destination in PLANET_ORDER), in the order of
\* non-decreasing minDeltaV.
C22_MatrixHasEveryPairOnceSortedByMinDeltaV ==
  OneEntryPerPair(matrixData) /\ NonDecreasingMinDeltaV(matrixData)

\* The effect has run for an acceleration other than the initial one, and
\* the order of the pushes was not the sorted order.
C22_Witness ==
  /\ originPlanet # destinationPlanet
  /\ planetAcceleration # G_1_3
  /\ matrixData = generateMatrix(planetAcceleration)
  /\ matrixData[2].origin = "Venus"
  /\ matrixData[4].origin = "Mercury"

\* C26: whatever origin, destination and acceleration were selected, equal
\* planets included, matrixData is generateMatrix at the current
\* acceleration.
C26_MatrixFollowsAcceleration ==
  matrixData = generateMatrix(planetAcceleration)

\* C23: while calculateValues runs, on the success path and after a
\* validation error alike, the field objects of the component state are not
\* written; the state changes only when the loop has ended and setFields
\* commits the copy.
C23_CalculateWritesOnlyItsCopy ==
  [][(pc = "sweep" /\ pc' = "sweep") => fields' = fields]_vars


\* C24: after a Calculate that raises no validation error, a secondary
\* field the user has not edited is either empty or was computed during
\* this pass from the current inputs.
C24_NoLeftoverDerivedValue ==
  (AfterCalculate /\ FirstViolation(pre, 1) = "") =>
    \A f \in FieldNames \ Primary :
      ~fields[f].changed =>
        \/ ~NonEmpty(fields[f])
        \/ /\ fields[f].set
           /\ HasCalc(f) /\ fields[f].value = Calc(f, ArgumentMap(fields, f))


\* Calculate was pressed twice in succession, with no edit in between, and
\* the second Calculate has ended.
AfterSecondPress == AfterCalculate /\ before.op = "calc"

\* C25: pressing Calculate twice in succession leaves, after the second
\* press, the texts shown in the fields and the error message as they were
\* after the first press.
C25_CalculateIsIdempotent ==
  AfterSecondPress =>
    /\ errorMessage = before.errorMessage
    /\ \A f \in FieldNames : fields[f].displayValue = pre[f].displayValue


\* The base-unit value the next Calculate ingests for the field is the one
\* the field held, up to the rounding of the number format.
SameQuantity(after, held) ==
  IF held = EmptyValue THEN after = EmptyValue ELSE Close(after, held)

\* C27: handleUnitChange does not change the physical quantity: the
\* base-unit value processInput reads from the converted text is the value
\* the field had before the unit change, and the changed and set flags stay
\* as they were.
C27_UnitChangeKeepsQuantity ==
  [][(op' = "unit" /\ events' = events + 1) =>
       \A f \in FieldNames :
         /\ SameQuantity(Ingested(fields'[f], f).value, fields[f].value)
         /\ fields'[f].changed = fields[f].changed
         /\ fields'[f].set = fields[f].set]_vars


\* C28: Reset leaves the current_unit of every field as it is, and gives a
\* field with def_val the base-unit value def_val times the multiplier of
\* that current unit.
C28_ResetKeepsUnitAndScalesDefault ==
  [][(op' = "reset" /\ events' = events + 1) =>
       \A f \in FieldNames :
         /\ fields'[f].current_unit = fields[f].current_unit
         /\ f \in DOMAIN DefVal =>
              fields'[f].value =
                Mul(ParseFloat(DefVal[f]), Units[f][fields[f].current_unit])]_vars

\* Reset was pressed while distance was shown in meters: the field holds
\* 11.2 m, not the 11.2 light-years of initialization.
C28_Witness ==
  /\ op = "reset"
  /\ fields["distance"].current_unit = "meters"
  /\ DefaultUnits["distance"] = "light-years"
  /\ fields["distance"].value = N(1120, -2)
  /\ fields["distance"].value # InitialFields["distance"].value


\* The distance the three phases of the standard profile cover:
\* 2 * accelerationDistance + coastDistance.
PhasesDistance ==
  Add(Mul(Two, probe.args["accelerationDistance"]), probe.args["coastDistance"])

\* The time, in years, to cover distance d: up to maxVelocity and down again,
\* and the rest of d at maxVelocity.
TimeToCover(d) ==
  Div(Add(Mul(Two, probe.args["timeToVelocity"]),
          Div(Sub(d, Mul(Two, probe.args["accelerationDistance"])),
              probe.args["maxVelocity"])),
      YEAR_TO_SECONDS)

\* C29: in the standard profile the three phases cover the distance to the
\* selected star, and the reported Earth time is the time to cover that
\* distance.
C29_PhasesCoverTheDistance ==
  probe.fn = "calculateResults" =>
    /\ Close(PhasesDistance, probe.args["distance"])
    /\ Close(probe.out, TimeToCover(probe.args["distance"]))


\* C30: the two variants of the solver accept and reject the same inputs:
\* from the state in which Calculate is pressed, processInput of README.md
\* returns what processInput of the TypeScript variant returns, the same
\* fields and the same error message.
C30_VariantsAreEquivalent ==
  op = "calc" =>
    /\ ReadmeProcessInput(pre).error = thrown
    /\ ReadmeProcessInput(pre) = ProcessInput(pre)

=========================================================================
